---- MODULE Spec2Model ----
(***************************************************************************)
(* A model of the command-line parsing engine of src/src/CmdLine.cpp:      *)
(* the option registry (CmdLine::add), the dispatcher (CmdLine::parse,     *)
(* handleArg and the handlers it calls), the occurrence accounting         *)
(* (addOccurrence, parse(opt, name, arg)) and the final checks             *)
(* (CmdLine::check, OptionGroup::check).                                   *)
(*                                                                         *)
(* Strings are sequences of one-character strings, so that substr, find    *)
(* and split are computed as src/include/Support/StringRef.h and           *)
(* StringSplit.h compute them.  Positions are 0-based as in the source;    *)
(* the character at position i of s is s[i + 1].                           *)
(***************************************************************************)
EXTENDS Integers, Sequences, FiniteSets, TLC

(***************************************************************************)
(* StringRef                                                               *)
(***************************************************************************)

\* StringRef::npos, static_cast<size_t>(-1): larger than every length.
npos == 1000000

Min(x, y) == IF x < y THEN x ELSE y

\* StringRef::front(N): the first N characters.
front(s, n) == SubSeq(s, 1, Min(n, Len(s)))

\* StringRef::drop_front(N): the string without its first N characters.
drop_front(s, n) == SubSeq(s, Min(n, Len(s)) + 1, Len(s))

\* StringRef::substr(First, Count) == drop_front(First).front(Count).
substr(s, first, count) == front(drop_front(s, first), count)

\* StringRef::find(Ch, From = 0): position of the first Ch, or npos.
find(s, ch) ==
    IF \E i \in 1..Len(s) : s[i] = ch
    THEN (CHOOSE i \in 1..Len(s) : s[i] = ch /\ \A j \in 1..(i - 1) : s[j] # ch) - 1
    ELSE npos

\* StringRef::find(Str, From = 0) from position 0: the first occurrence of the
\* needle, or npos.  A one-character needle is delegated to find(Ch).
findStr(s, needle) ==
    IF Len(needle) = 1 THEN find(s, needle[1])
    ELSE IF Len(needle) = 0 THEN 0
    ELSE LET hits == {i \in 0..(Len(s) - Len(needle)) : substr(s, i, Len(needle)) = needle}
         IN  IF hits = {} THEN npos
             ELSE CHOOSE i \in hits : \A j \in hits : i <= j

(***************************************************************************)
(* strings::split with a LiteralDelimiter and the KeepEmpty predicate      *)
(***************************************************************************)

\* LiteralDelimiter::operator() that gives every delimiter the length 1.
LiteralDelimiter_OneChar(needle, s) ==
    IF Len(needle) = 0 THEN <<npos, 0>> ELSE <<findStr(s, needle), 1>>

\* LiteralDelimiter::operator(): (position, length) of the next delimiter.
LiteralDelimiter(needle, s) ==
    IF Len(needle) = 0 THEN <<npos, 0>> ELSE <<findStr(s, needle), Len(needle)>>

\* Split_range::next / increment, run to the end of the range: the tokens the
\* range yields, in order.
RECURSIVE split(_, _)
split(s, needle) ==
    LET Sep == LiteralDelimiter(needle, s)
    IN  IF Sep[1] = npos
        THEN <<s>>
        ELSE <<front(s, Sep[1])>> \o split(drop_front(s, Sep[1] + Sep[2]), needle)

(***************************************************************************)
(* Characters and tokens                                                   *)
(***************************************************************************)

Dash == "-"
Eq == "="
Comma == ","
Pipe == "|"

(***************************************************************************)
(* Option objects                                                          *)
(***************************************************************************)

\* enum NumOccurrences
NumOccurrences == {"Optional", "ZeroOrMore", "Required", "OneOrMore"}
\* enum NumArgs
NumArgs == {"ArgOptional", "ArgRequired", "ArgDisallowed"}
\* enum Formatting
Formatting == {"DefaultFormatting", "Prefix", "MayPrefix", "Grouping", "Positional"}
\* enum MiscFlags
MiscFlags == {"CommaSeparated", "Hidden", "ConsumeAfter"}

\* An option object as the embedding program constructs it: the fields of
\* OptionBase that the engine reads, the allowed values its parser exposes
\* (getAllowedValues) and whether its storage is a scalar or a container.
\* OptionBase::OptionBase gives the defaults.  parser is the Parser<T> of the
\* option ("string", "int", "bool") and container the class of its storage
\* when that is no scalar ("vector", "set").
OptionBase ==
    [name_ |-> <<>>, argName_ |-> <<"a", "r", "g">>, numOccurrences_ |-> "Optional",
     numArgs_ |-> "ArgOptional", formatting_ |-> "DefaultFormatting",
     miscFlags_ |-> {}, allowedValues |-> <<>>, IsScalar |-> TRUE,
     parser |-> "string", container |-> "vector"]

VARIABLES
    obj,                \* the option objects: id -> fields (fixed once constructed)
    groupObj,           \* the OptionGroup objects: id -> [name_, type_, options_]
    toAdd,              \* ids of the objects the program still registers, in order
    count_,             \* OptionBase::count_, per option object
    value_,             \* BasicOption::value_, per option object: the stored pieces
    options_,           \* CmdLine::options_: alias -> option id
    groups_,            \* CmdLine::groups_: group name -> group id
    positionals_,       \* CmdLine::positionals_: option ids in declaration order
    maxPrefixLength_,   \* CmdLine::maxPrefixLength_
    args_,              \* CmdLine::args_
    index_,             \* CmdLine::index_
    dashdash,           \* the local of CmdLine::parse(): "--" seen?
    currentPositional_, \* CmdLine::currentPositional_, as an offset into positionals_
    group,              \* handleGroup: the options of the cluster being handled
    groupPos,           \* handleGroup: the loop variable n of its last loop
    parsesLeft,         \* how many more times the program calls parse(argv)
    pc,                 \* where the program is
    error,              \* the exception thrown, if any
    files,              \* the file system: file name -> contents
    expandI,            \* expandResponseFiles: the loop variable i
    responseFilesLeft,  \* expandResponseFiles: the local responseFilesLeft
    flags_,             \* CmdLine::flags_ of CmdLine.h: a set of CmdLineFlags
    errors_,            \* CmdLine::errors_ of CmdLine.h
    unknowns_,          \* CmdLine::unknowns_ of CmdLine.h
    splitRange,         \* a Split_range object: [Str, Delim, Tok, Pos, it], or NoRange
    splitOut,           \* the tokens an iteration over splitRange has yielded
    trimRef             \* a StringRef under trim_right: [str, Chars, calls], or NoRef

vars == <<obj, groupObj, toAdd, count_, value_, options_, groups_, positionals_, maxPrefixLength_,
          args_, index_, dashdash, currentPositional_, group, groupPos, parsesLeft, pc,
          error, files, expandI, responseFilesLeft, flags_, errors_, unknowns_,
          splitRange, splitOut, trimRef>>

\* No string is being split or trimmed.
NoRange == [Str |-> <<>>, Delim |-> <<>>, Tok |-> <<>>, Pos |-> 0, it |-> "none"]
NoRef == [str |-> <<>>, Chars |-> <<>>, calls |-> -1]

NoError == [kind |-> "none", what |-> <<>>]
Err(kind, what) == [kind |-> kind, what |-> what]

\* OptionBase::displayName
displayName(o) == IF obj[o].name_ = <<>> THEN obj[o].argName_ ELSE obj[o].name_

\* OptionBase::isPrefix
isPrefix(o) == obj[o].formatting_ = "Prefix" \/ obj[o].formatting_ = "MayPrefix"

\* isOccurrenceAllowed that allows every occurrence.
isOccurrenceAllowed_Always(o, cnt) == TRUE

\* OptionBase::isOccurrenceAllowed, on the counts cnt
isOccurrenceAllowed(o, cnt) ==
    IF obj[o].numOccurrences_ = "Optional" \/ obj[o].numOccurrences_ = "Required"
    THEN cnt[o] = 0
    ELSE TRUE

\* isOccurrenceRequired with the Required policy forgotten.
isOccurrenceRequired_OneOrMoreOnly(o, cnt) ==
    IF obj[o].numOccurrences_ = "OneOrMore" THEN cnt[o] = 0 ELSE FALSE

\* OptionBase::isOccurrenceRequired, on the counts cnt
isOccurrenceRequired(o, cnt) ==
    IF obj[o].numOccurrences_ = "Required" \/ obj[o].numOccurrences_ = "OneOrMore"
    THEN cnt[o] = 0
    ELSE FALSE

(***************************************************************************)
(* CmdLine::add(OptionBase&)                                               *)
(***************************************************************************)

\* The aliases add() inserts for a non-positional option: the allowed values
\* when the name is empty, else the pieces of the name split on "|".
aliasesOf(o) ==
    IF obj[o].name_ = <<>> THEN obj[o].allowedValues ELSE split(obj[o].name_, <<Pipe>>)

\* insert that puts the alias in the map over the option that has it.
RECURSIVE insert_Overwrites(_, _, _)
insert_Overwrites(o, aliases, r) ==
    IF aliases = <<>> THEN r
    ELSE insert_Overwrites(o, Tail(aliases),
                           [r EXCEPT !.map = (Head(aliases) :> o) @@ r.map])

\* The lambda insert of add(), applied to the aliases in order.  r is the
\* registry so far: [map, mpl, err].  The prefix length is raised before the
\* alias is inserted; a duplicate alias throws and leaves what was done.
RECURSIVE insert(_, _, _)
insert(o, aliases, r) ==
    IF aliases = <<>> \/ r.err # NoError THEN r
    ELSE LET s == Head(aliases)
             mpl == IF isPrefix(o) /\ r.mpl < Len(s) THEN Len(s) ELSE r.mpl
         IN  IF s \in DOMAIN r.map
             THEN [r EXCEPT !.mpl = mpl, !.err = Err("DuplicateAlias", s)]
             ELSE insert(o, Tail(aliases),
                         [r EXCEPT !.mpl = mpl, !.map = (s :> o) @@ r.map])


\* CmdLine::add(OptionBase&), on the registry r == [map, pos, mpl, err].
add(o, r) ==
    IF obj[o].formatting_ = "Positional"
    THEN IF obj[o].name_ = <<>>
         THEN [r EXCEPT !.err = Err("PositionalNeedsName", <<>>)]
         ELSE [r EXCEPT !.pos = Append(r.pos, o)]
    ELSE IF obj[o].name_ = <<>> /\ obj[o].allowedValues = <<>>
         THEN [r EXCEPT !.err = Err("NoNameNoValues", <<>>)]
         ELSE insert(o, aliasesOf(o), r)

\* CmdLine::findOption
findOption(name) == IF name \in DOMAIN options_ THEN options_[name] ELSE "null"

(***************************************************************************)
(* Occurrence accounting.  A session record s holds what a handler may     *)
(* change: [err, index, count, value, cur] for the exception thrown,       *)
(* index_, every count_, every value_ and currentPositional_.              *)
(***************************************************************************)

Throw(s, kind, what) == [s EXCEPT !.err = Err(kind, what)]

\* The digits operator>> reads with setbase(0), and their values.
Digits == <<"0", "1", "2", "3", "4", "5", "6", "7", "8", "9",
            "a", "b", "c", "d", "e", "f">>
UpperDigits == <<"0", "1", "2", "3", "4", "5", "6", "7", "8", "9",
                 "A", "B", "C", "D", "E", "F">>
digitValue(c) ==
    IF \E i \in 1..16 : Digits[i] = c THEN (CHOOSE i \in 1..16 : Digits[i] = c) - 1
    ELSE IF \E i \in 1..16 : UpperDigits[i] = c
    THEN (CHOOSE i \in 1..16 : UpperDigits[i] = c) - 1
    ELSE 16

\* The number the digits of str are in the given base after acc, or -1 when
\* some character of str is no digit of that base.
RECURSIVE number(_, _, _)
number(str, base, acc) ==
    IF str = <<>> THEN acc
    ELSE IF digitValue(Head(str)) >= base THEN -1
    ELSE number(Tail(str), base, acc * base + digitValue(Head(str)))

\* What setbase(0) makes of the text after the sign: 0x or 0X announces
\* hexadecimal digits, another leading 0 octal digits; the digits are
\* decimal otherwise.
isHex(body) == Len(body) >= 2 /\ body[1] = "0" /\ body[2] \in {"x", "X"}
baseOf(body) ==
    IF isHex(body) THEN 16 ELSE IF Len(body) >= 2 /\ body[1] = "0" THEN 8 ELSE 10
digitsOf(body) == IF isHex(body) THEN SubSeq(body, 3, Len(body)) ELSE body

\* Parser<int>::operator(): (stream >> std::setbase(0) >> value) && stream.eof().
\* A sign, then 0x and hexadecimal digits, 0 and octal digits, or decimal
\* digits; the whole text has to be read.
parseInt(arg) ==
    LET signed == arg # <<>> /\ arg[1] \in {"-", "+"}
        body == IF signed THEN Tail(arg) ELSE arg
        n == number(digitsOf(body), baseOf(body), 0)
    IN  IF digitsOf(body) = <<>> \/ n < 0 THEN [ok |-> FALSE, value |-> 0]
        ELSE [ok |-> TRUE, value |-> IF arg[1] = "-" THEN 0 - n ELSE n]

\* Parser<bool>::operator()
parseBool(arg) ==
    IF arg = <<>> \/ arg = <<"1">> \/ arg = <<"t", "r", "u", "e">>
    THEN [ok |-> TRUE, value |-> TRUE]
    ELSE IF arg = <<"0">> \/ arg = <<"f", "a", "l", "s", "e">>
    THEN [ok |-> TRUE, value |-> FALSE]
    ELSE [ok |-> FALSE, value |-> FALSE]

\* Parser<T>::operator() of option o: ok is the bool it returns.  For
\* std::string every text is accepted and is the value.
Parser(o, name, arg) ==
    CASE obj[o].parser = "int" -> parseInt(arg)
      [] obj[o].parser = "bool" -> parseBool(arg)
      [] OTHER -> [ok |-> TRUE, value |-> arg]

\* details::Inserter on a std::set<int>: c.insert(c.end(), v).  The set is the
\* sequence of its elements in order.
RECURSIVE insertInSet(_, _)
insertInSet(c, v) ==
    IF c = <<>> THEN <<v>>
    ELSE IF v = Head(c) THEN c
    ELSE IF v < Head(c) THEN <<v>> \o c
    ELSE <<Head(c)>> \o insertInSet(Tail(c), v)

\* Option::parse: a scalar is overwritten, a container gets the element
\* inserted at its end.
store(o, val, v) ==
    IF obj[o].IsScalar THEN <<v>>
    ELSE IF obj[o].container = "set" THEN insertInSet(val, v)
    ELSE Append(val, v)

\* opt->parse(name, arg) when the parser does not accept arg: the exception
\* leaves the lambda add before opt->count_++.
invalidArgument(o, name, arg, s) == Throw(s, "InvalidArgument", <<name, arg>>)

\* The lambda add with opt->count_++ run whatever the parser said.
addPiece_CountsAnyway(o, name, arg, s) ==
    LET r == Parser(o, name, arg)
    IN  IF r.ok
        THEN [s EXCEPT !.value[o] = store(o, @, r.value), !.count[o] = @ + 1]
        ELSE [invalidArgument(o, name, arg, s) EXCEPT !.count[o] = @ + 1]

\* The lambda add of parse(opt, name, arg): opt->parse(name, arg); opt->count_++
addPiece(o, name, arg, s) ==
    LET r == Parser(o, name, arg)
    IN  IF r.ok
        THEN [s EXCEPT !.value[o] = store(o, @, r.value), !.count[o] = @ + 1]
        ELSE invalidArgument(o, name, arg, s)

\* The loop of parse(opt, name, arg) over the pieces of a comma-separated
\* argument; an exception ends it.
RECURSIVE addPieces(_, _, _, _)
addPieces(o, name, pieces, s) ==
    IF pieces = <<>> \/ s.err # NoError THEN s
    ELSE addPieces(o, name, Tail(pieces), addPiece(o, name, Head(pieces), s))

\* parse(opt, name, arg) with the CommaSeparated flag never looked at.
parse_NoSplit(o, name, arg, s) ==
    IF ~isOccurrenceAllowed(o, s.count)
    THEN Throw(s, "AlreadySpecified", displayName(o))
    ELSE addPiece(o, name, arg, s)

\* CmdLine::parse(OptionBase*, StringRef name, StringRef arg)
parse(o, name, arg, s) ==
    IF ~isOccurrenceAllowed(o, s.count)
    THEN Throw(s, "AlreadySpecified", displayName(o))
    ELSE IF "CommaSeparated" \in obj[o].miscFlags_
         THEN addPieces(o, name, split(arg, <<Comma>>), s)
         ELSE addPiece(o, name, arg, s)

\* addOccurrence(opt, name) with an ArgOptional option taking the next
\* argument when there is one.
addOccurrence_OptionalSteals(o, name, s) ==
    IF obj[o].formatting_ # "Positional" /\ obj[o].numArgs_ = "ArgRequired"
    THEN IF obj[o].formatting_ = "Prefix" \/ s.index + 1 >= Len(args_)
         THEN Throw(s, "MissingArgument", displayName(o))
         ELSE parse(o, name, args_[s.index + 2], [s EXCEPT !.index = @ + 1])
    ELSE IF obj[o].formatting_ # "Positional" /\ obj[o].numArgs_ = "ArgOptional"
            /\ s.index + 1 < Len(args_)
    THEN parse(o, name, args_[s.index + 2], [s EXCEPT !.index = @ + 1])
    ELSE parse(o, name, <<>>, s)

\* addOccurrence(opt, name) with a Prefix option taking the next argument as
\* any other option does.
addOccurrence_PrefixSteals(o, name, s) ==
    IF obj[o].formatting_ # "Positional" /\ obj[o].numArgs_ = "ArgRequired"
    THEN IF s.index + 1 >= Len(args_)
         THEN Throw(s, "MissingArgument", displayName(o))
         ELSE parse(o, name, args_[s.index + 2], [s EXCEPT !.index = @ + 1])
    ELSE parse(o, name, <<>>, s)

\* CmdLine::addOccurrence(OptionBase*, StringRef name): no inline value.
addOccurrence(o, name, s) ==
    IF obj[o].formatting_ # "Positional" /\ obj[o].numArgs_ = "ArgRequired"
    THEN IF obj[o].formatting_ = "Prefix" \/ s.index + 1 >= Len(args_)
         THEN Throw(s, "MissingArgument", displayName(o))
         ELSE parse(o, name, args_[s.index + 2], [s EXCEPT !.index = @ + 1])
    ELSE parse(o, name, <<>>, s)

\* addOccurrence(opt, name, arg) with the argument accepted whatever numArgs_ is.
addOccurrenceArg_Unchecked(o, name, arg, s) == parse(o, name, arg, s)

\* CmdLine::addOccurrence(OptionBase*, StringRef name, StringRef arg)
addOccurrenceArg(o, name, arg, s) ==
    IF obj[o].formatting_ # "Positional" /\ obj[o].numArgs_ = "ArgDisallowed"
    THEN Throw(s, "UnexpectedArgument", displayName(o))
    ELSE parse(o, name, arg, s)

(***************************************************************************)
(* The handlers of handleArg.  handleOption, handlePrefix and handleGroup  *)
(* return [ret, s]: ret is the bool the source returns, s the session.     *)
(***************************************************************************)

\* handlePositional that gives the token to the option the cursor is at,
\* whether or not it allows an occurrence.
handlePositional_NeverSkips(curr, s) ==
    IF s.cur = Len(positionals_)
    THEN Throw(s, "UnhandledPositional", curr)
    ELSE addOccurrenceArg(positionals_[s.cur + 1], curr, curr, s)

\* CmdLine::handlePositional
RECURSIVE handlePositional(_, _)
handlePositional(curr, s) ==
    IF s.cur = Len(positionals_)
    THEN Throw(s, "UnhandledPositional", curr)
    ELSE LET o == positionals_[s.cur + 1]
         IN  IF ~isOccurrenceAllowed(o, s.count)
             THEN handlePositional(curr, [s EXCEPT !.cur = @ + 1])
             ELSE addOccurrenceArg(o, curr, curr, s)

\* CmdLine::handleOption
handleOption(curr, s) ==
    IF findOption(curr) # "null"
    THEN [ret |-> TRUE, s |-> addOccurrence(findOption(curr), curr, s)]
    ELSE LET I == find(curr, Eq)
             name == substr(curr, 0, I)
             o == findOption(name)
         IN  IF I = npos THEN [ret |-> FALSE, s |-> s]
             ELSE IF o # "null"
                  THEN [ret |-> TRUE,
                        s |-> addOccurrenceArg(o, name,
                                 substr(curr, IF isPrefix(o) THEN I ELSE I + 1, npos), s)]
                  ELSE [ret |-> FALSE, s |-> s]

\* CmdLine::handlePrefix: the loop, from length n downwards.
RECURSIVE handlePrefixFrom(_, _, _)
handlePrefixFrom(curr, n, s) ==
    IF n = 0 THEN [ret |-> FALSE, s |-> s]
    ELSE LET name == substr(curr, 0, n)
             o == findOption(name)
         IN  IF o # "null" /\ isPrefix(o)
             THEN [ret |-> TRUE, s |-> addOccurrenceArg(o, name, substr(curr, n, npos), s)]
             ELSE handlePrefixFrom(curr, n - 1, s)

\* handlePrefix with the search begun at the shortest alias length.
handlePrefix_OneLetter(curr, s) == handlePrefixFrom(curr, Min(1, Len(curr)), s)

\* CmdLine::handlePrefix
handlePrefix(curr, s) == handlePrefixFrom(curr, Min(maxPrefixLength_, Len(curr)), s)

\* handleGroup with the last loop ended one option early.
handleGroup_SkipsLast(curr, s) ==
    LET letter(n) == substr(curr, n, 1)
        N == Len(curr)
    IN  IF \E n \in 0..(N - 1) :
               \/ findOption(letter(n)) = "null"
               \/ obj[findOption(letter(n))].formatting_ # "Grouping"
        THEN [ret |-> FALSE, s |-> s, grp |-> <<>>]
        ELSE LET grp == [n \in 1..N |-> <<findOption(letter(n - 1)), letter(n - 1)>>]
                 bad == {n \in 1..(N - 1) : obj[grp[n][1]].numArgs_ = "ArgRequired"}
             IN  IF bad # {}
                 THEN [ret |-> TRUE,
                       s |-> Throw(s, "MissingArgumentInGroup",
                                   <<displayName(grp[CHOOSE n \in bad : \A m \in bad : n <= m][1]),
                                     curr>>),
                       grp |-> <<>>]
                 ELSE [ret |-> TRUE, s |-> s, grp |-> SubSeq(grp, 1, N - 1)]

\* handleGroup that takes the letters before the first that is no Grouping
\* option as the cluster.
handleGroup_LeadingLetters(curr, s) ==
    LET letter(n) == substr(curr, n, 1)
        isMember(n) == /\ findOption(letter(n)) # "null"
                       /\ obj[findOption(letter(n))].formatting_ = "Grouping"
        N == Len(curr)
        L == Cardinality({n \in 0..(N - 1) : \A m \in 0..n : isMember(m)})
    IN  IF L = 0
        THEN [ret |-> FALSE, s |-> s, grp |-> <<>>]
        ELSE [ret |-> TRUE, s |-> s,
              grp |-> [n \in 1..L |-> <<findOption(letter(n - 1)), letter(n - 1)>>]]

\* handleGroup without the loop over the first N - 1 options.
handleGroup_NoArgCheck(curr, s) ==
    LET letter(n) == substr(curr, n, 1)
        N == Len(curr)
    IN  IF \E n \in 0..(N - 1) :
               \/ findOption(letter(n)) = "null"
               \/ obj[findOption(letter(n))].formatting_ # "Grouping"
        THEN [ret |-> FALSE, s |-> s, grp |-> <<>>]
        ELSE [ret |-> TRUE, s |-> s,
              grp |-> [n \in 1..N |-> <<findOption(letter(n - 1)), letter(n - 1)>>]]

\* CmdLine::handleGroup, up to its last loop: ret is FALSE when some letter is
\* no Grouping option; else the cluster is in grp, as <<option, letter>> pairs,
\* unless one of the first N - 1 options requires an argument: the exception
\* then names the first of them and the cluster.
handleGroup(curr, s) ==
    LET letter(n) == substr(curr, n, 1)
        N == Len(curr)
    IN  IF \E n \in 0..(N - 1) :
               \/ findOption(letter(n)) = "null"
               \/ obj[findOption(letter(n))].formatting_ # "Grouping"
        THEN [ret |-> FALSE, s |-> s, grp |-> <<>>]
        ELSE LET grp == [n \in 1..N |-> <<findOption(letter(n - 1)), letter(n - 1)>>]
                 bad == {n \in 1..(N - 1) : obj[grp[n][1]].numArgs_ = "ArgRequired"}
             IN  IF bad # {}
                 THEN [ret |-> TRUE,
                       s |-> Throw(s, "MissingArgumentInGroup",
                                   <<displayName(grp[CHOOSE n \in bad : \A m \in bad : n <= m][1]),
                                     curr>>),
                       grp |-> <<>>]
                 ELSE [ret |-> TRUE, s |-> s, grp |-> grp]


\* StringRef::operator[] on a token of args_ (a std::string, whose buffer ends
\* with a NUL character): the character at position i.
NUL == "\\0"
charAt(str, i) == IF i < Len(str) THEN str[i + 1] ELSE NUL

\* handleArg without the test of line 206.
isDashDash_Never(arg, dd) == FALSE

\* handleArg, line 206, with "--" special every time.
isDashDash_Always(arg, dd) == arg = <<Dash, Dash>>

\* CmdLine::handleArg, line 206: the token is the "--" that stops option parsing.
isDashDash(arg, dd) == arg = <<Dash, Dash>> /\ ~dd

\* handleArg, line 214, with dashdash forgotten.
isPositionalArg_NoDashDash(arg, dd) == charAt(arg, 0) # Dash \/ arg = <<Dash>>

\* CmdLine::handleArg, line 214: the token is a positional argument.
isPositionalArg(arg, dd) == charAt(arg, 0) # Dash \/ arg = <<Dash>> \/ dd

\* handleArg, lines 220-221, with the ConsumeAfter flag never looked at.
consumeAfter_Never(t, dd) == dd

\* CmdLine::handleArg, lines 220-221: dashdash after handlePositional returned
\* with the session t.
consumeAfter(t, dd) ==
    IF "ConsumeAfter" \in obj[positionals_[t.cur + 1]].miscFlags_ THEN TRUE ELSE dd

\* handleArg, lines 238-252, with the cluster handler tried for a token with
\* two dashes as well.
handleNamed_GroupsLongForm(arg, name, short_option, s) ==
    LET opt == handleOption(name, s)
        pre == handlePrefix(name, s)
        grp == handleGroup(name, s)
    IN  IF opt.ret THEN [s |-> opt.s, grp |-> <<>>]
        ELSE IF pre.ret THEN [s |-> pre.s, grp |-> <<>>]
        ELSE IF grp.ret THEN [s |-> grp.s, grp |-> grp.grp]
        ELSE [s |-> Throw(s, "UnknownOption", arg), grp |-> <<>>]

\* handleArg, lines 238-252, with the prefix handler tried first.
handleNamed_PrefixFirst(arg, name, short_option, s) ==
    LET opt == handleOption(name, s)
        pre == handlePrefix(name, s)
        grp == handleGroup(name, s)
    IN  IF pre.ret THEN [s |-> pre.s, grp |-> <<>>]
        ELSE IF opt.ret THEN [s |-> opt.s, grp |-> <<>>]
        ELSE IF short_option /\ grp.ret THEN [s |-> grp.s, grp |-> grp.grp]
        ELSE [s |-> Throw(s, "UnknownOption", arg), grp |-> <<>>]

\* CmdLine::handleArg, lines 238-252: the handlers in their order.
handleNamed(arg, name, short_option, s) ==
    LET opt == handleOption(name, s)
        pre == handlePrefix(name, s)
        grp == handleGroup(name, s)
    IN  IF opt.ret THEN [s |-> opt.s, grp |-> <<>>]
        ELSE IF pre.ret THEN [s |-> pre.s, grp |-> <<>>]
        ELSE IF short_option /\ grp.ret THEN [s |-> grp.s, grp |-> grp.grp]
        ELSE [s |-> Throw(s, "UnknownOption", arg), grp |-> <<>>]

\* CmdLine::handleArg, up to the last loop of handleGroup.  The result is
\* [s, dd, grp]: the session, dashdash, and the cluster still to be handled.
handleArg(s, dd) ==
    LET arg == args_[s.index + 1]
        name1 == substr(arg, 1, npos)
        short_option == charAt(name1, 0) # Dash
        name == IF short_option THEN name1 ELSE substr(name1, 1, npos)
    IN  IF isDashDash(arg, dd)
        THEN [s |-> s, dd |-> TRUE, grp |-> <<>>]
        ELSE IF isPositionalArg(arg, dd)
        THEN LET t == handlePositional(arg, s)
             IN  [s |-> t, dd |-> IF t.err = NoError THEN consumeAfter(t, dd) ELSE dd,
                  grp |-> <<>>]
        ELSE LET r == handleNamed(arg, name, short_option, s)
             IN  [s |-> r.s, dd |-> dd, grp |-> r.grp]

\* StringRef::operator[]: assert(Index < size() && "index out of range").
indexInRange(str, i) == i < Len(str)

NoAssert == <<>>
IndexAssert == <<"Index < size() && \"index out of range\"">>
CurrAssert == <<"!curr.empty()">>

\* The assert()s on the way of handleArg through the token at the cursor: the
\* first of them that is false, or NoAssert.  They are arg[0] (line 214),
\* name[0] (line 233), and the one at the head of handlePrefix (line 310); the
\* one after the first loop of handleGroup (line 345) is false for an empty
\* name only, which handlePrefix has seen before.  A build with NDEBUG goes on
\* past a false one as handleArg says: operator[] then reads the NUL at the
\* end of the std::string the token is in.
failedAssert(s, dd) ==
    LET arg == args_[s.index + 1]
        name1 == substr(arg, 1, npos)
        short_option == charAt(name1, 0) # Dash
        name == IF short_option THEN name1 ELSE substr(name1, 1, npos)
    IN  IF isDashDash(arg, dd) THEN NoAssert
        ELSE IF ~indexInRange(arg, 0) THEN IndexAssert
        ELSE IF isPositionalArg(arg, dd) THEN NoAssert
        ELSE IF ~indexInRange(name1, 0) THEN IndexAssert
        ELSE IF name # <<>> THEN NoAssert
        ELSE IF handleOption(name, s).ret THEN NoAssert
        ELSE CurrAssert

\* What a turn of handleArg may end with for the assert()s: nothing, or, in
\* a build that keeps them, the abort of the first false one.
assertOutcomes(s, dd) ==
    IF failedAssert(s, dd) = NoAssert THEN {NoAssert} ELSE {NoAssert, failedAssert(s, dd)}

(***************************************************************************)
(* CmdLine::check                                                          *)
(***************************************************************************)

\* The characters of the model in the order of their codes.
Ascii == <<NUL, Comma, Dash, "0", "1", "2", "3", "4", "5", "6", "7", "8", "9", Eq, "@",
           "A", "B", "C", "D", "E", "F", "G", "H", "I", "J", "K", "L", "M", "N", "O",
           "P", "Q", "R", "S", "T", "U", "V", "W", "X", "Y", "Z", "a", "b", "c", "d",
           "e", "f", "g", "h", "i", "j", "k", "l", "m", "n", "o", "p", "q", "r", "s",
           "t", "u", "v", "w", "x", "y", "z", Pipe>>
ord(c) == CHOOSE i \in 1..Len(Ascii) : Ascii[i] = c

\* StringRef::less: lexicographic, a proper prefix first.
RECURSIVE less(_, _)
less(l, r) ==
    IF r = <<>> THEN FALSE
    ELSE IF l = <<>> THEN TRUE
    ELSE IF Head(l) # Head(r) THEN ord(Head(l)) < ord(Head(r))
    ELSE less(Tail(l), Tail(r))

\* The keys of a std::map<StringRef, ...> in iteration order.
RECURSIVE keysInOrder(_)
keysInOrder(K) ==
    IF K = {} THEN <<>>
    ELSE LET k == CHOOSE k \in K : \A j \in K \ {k} : less(k, j)
         IN  <<k>> \o keysInOrder(K \ {k})

\* std::stable_sort by name(): x goes behind every element whose name is not
\* greater than its own.
RECURSIVE insertSorted(_, _)
insertSorted(sorted, x) ==
    IF sorted = <<>> THEN <<x>>
    ELSE IF less(obj[x].name_, obj[Head(sorted)].name_)
         THEN <<x>> \o sorted
         ELSE <<Head(sorted)>> \o insertSorted(Tail(sorted), x)

RECURSIVE stable_sort(_)
stable_sort(v) ==
    IF v = <<>> THEN <<>>
    ELSE insertSorted(stable_sort(SubSeq(v, 1, Len(v) - 1)), v[Len(v)])

\* std::unique: of each run of equal adjacent elements the first is kept.
RECURSIVE unique(_)
unique(v) ==
    IF Len(v) <= 1 THEN v
    ELSE IF v[1] = v[2] THEN unique(Tail(v))
    ELSE <<v[1]>> \o unique(Tail(v))

\* CmdLine::getUniqueOptions
getUniqueOptions ==
    LET keys == keysInOrder(DOMAIN options_)
        opts == [i \in 1..Len(keys) |-> options_[keys[i]]]
    IN  unique(stable_sort(opts))

\* The first option of v that check(opt) throws for, or "null".
RECURSIVE firstMissing(_)
firstMissing(v) ==
    IF v = <<>> THEN "null"
    ELSE IF isOccurrenceRequired(Head(v), count_) THEN Head(v)
    ELSE firstMissing(Tail(v))


\* enum OptionGroup::Type
GroupType == {"Default", "Zero", "ZeroOrOne", "One", "OneOrMore", "All", "ZeroOrAll"}

\* OptionGroup::check with the test of ZeroOrOne in the case One.
groupCheckFails_OneAsZeroOrOne(g) ==
    LET options == groupObj[g].options_
        N == Cardinality({i \in 1..Len(options) : count_[options[i]] > 0})
        type_ == groupObj[g].type_
    IN  CASE type_ = "Default" -> FALSE
          [] type_ = "Zero" -> N # 0
          [] type_ = "ZeroOrOne" -> N # 0 /\ N # 1
          [] type_ = "One" -> N # 0 /\ N # 1
          [] type_ = "OneOrMore" -> N < 1
          [] type_ = "All" -> N # Len(options)
          [] type_ = "ZeroOrAll" -> N # 0 /\ N # Len(options)

\* OptionGroup::check with N the number of occurrences of the members.
RECURSIVE occurrences(_)
occurrences(options) ==
    IF options = <<>> THEN 0 ELSE count_[Head(options)] + occurrences(Tail(options))

groupCheckFails_CountsOccurrences(g) ==
    LET options == groupObj[g].options_
        N == occurrences(options)
        type_ == groupObj[g].type_
    IN  CASE type_ = "Default" -> FALSE
          [] type_ = "Zero" -> N # 0
          [] type_ = "ZeroOrOne" -> N # 0 /\ N # 1
          [] type_ = "One" -> N # 1
          [] type_ = "OneOrMore" -> N < 1
          [] type_ = "All" -> N # Len(options)
          [] type_ = "ZeroOrAll" -> N # 0 /\ N # Len(options)

\* OptionGroup::check: TRUE when the group throws.
groupCheckFails(g) ==
    LET options == groupObj[g].options_
        N == Cardinality({i \in 1..Len(options) : count_[options[i]] > 0})
        type_ == groupObj[g].type_
    IN  CASE type_ = "Default" -> FALSE
          [] type_ = "Zero" -> N # 0
          [] type_ = "ZeroOrOne" -> N # 0 /\ N # 1
          [] type_ = "One" -> N # 1
          [] type_ = "OneOrMore" -> N < 1
          [] type_ = "All" -> N # Len(options)
          [] type_ = "ZeroOrAll" -> N # 0 /\ N # Len(options)

\* The first group, in the order of groups_, whose check throws, or "null".
RECURSIVE firstFailingGroup(_)
firstFailingGroup(names) ==
    IF names = <<>> THEN "null"
    ELSE IF groupCheckFails(groups_[Head(names)]) THEN groups_[Head(names)]
    ELSE firstFailingGroup(Tail(names))

\* CmdLine::check(): the exception it throws, or NoError.
check ==
    LET o == firstMissing(getUniqueOptions \o positionals_)
        g == firstFailingGroup(keysInOrder(DOMAIN groups_))
    IN  IF o # "null" THEN Err("MissingRequiredOption", displayName(o))
        ELSE IF g # "null" THEN Err("GroupConstraintViolated", groupObj[g].name_)
        ELSE NoError


(***************************************************************************)
(* The embedding program: it constructs option objects, registers them,    *)
(* and calls parse(argv).                                                  *)
(***************************************************************************)

\* The longest argument vector handed to parse.
MaxArgs == 2

\* The tokens of the argument vectors.
Tokens ==
    { <<Dash, Dash>>, <<"x">>,
      <<Dash, "a">>, <<Dash, "c">>, <<Dash, "b">>,
      <<Dash, "a", "b">>, <<Dash, "b", "a">>, <<Dash, "a", "b", "a">>,
      <<Dash, "a", Eq, "x", Comma, "y">> }

Argvs(T) == UNION {[1..n -> T] : n \in 0..MaxArgs}

\* Option a, with aliases a and c: any occurrence policy, argument
\* requirement, formatting and CommaSeparated or not.  Its storage is a
\* scalar when it may occur once and a container otherwise.
optA(occ, na, fmt, flags) ==
    [OptionBase EXCEPT !.name_ = <<"a", Pipe, "c">>, !.numOccurrences_ = occ,
                       !.numArgs_ = na, !.formatting_ = fmt, !.miscFlags_ = flags,
                       !.IsScalar = (occ \in {"Optional", "Required"})]

\* Option b: a flag that groups (as g and h of src/test/Test.cpp).
optB ==
    [OptionBase EXCEPT !.name_ = <<"b">>, !.numOccurrences_ = "ZeroOrMore",
                       !.formatting_ = "Grouping", !.IsScalar = FALSE]

\* Option ab, whose name is also a and b in a row (as gh of src/test/Test.cpp).
optAB(fmt) ==
    [OptionBase EXCEPT !.name_ = <<"a", "b">>, !.formatting_ = fmt]

\* A positional option (as files of src/test/Test.cpp).
optPos(name, occ, flags) ==
    [OptionBase EXCEPT !.name_ = name, !.numOccurrences_ = occ,
                       !.formatting_ = "Positional", !.miscFlags_ = flags,
                       !.IsScalar = (occ \in {"Optional", "Required"})]

NamedFormatting == Formatting \ {"Positional"}

\* A group without a constraint over a and b.
groupG == [name_ |-> <<"g">>, type_ |-> "Default", options_ |-> <<"a", "b">>]

Program(objs, order) ==
    [obj |-> objs, groupObj |-> [G |-> groupG], order |-> order, parses |-> 1]

\* Programs that declare a in every way, beside b and the positional p.
NamedPrograms ==
    { Program([a |-> optA(occ, na, fmt, flags), b |-> optB,
               p |-> optPos(<<"p">>, "ZeroOrMore", {})],
              <<"a", "b", "G", "p">>) :
        occ \in NumOccurrences, na \in NumArgs, fmt \in NamedFormatting,
        flags \in {{}, {"CommaSeparated"}} }

\* Programs that declare ab beside a and b.
OverlapPrograms ==
    { Program([a |-> optA("ZeroOrMore", "ArgOptional", fmt, {}), b |-> optB,
               ab |-> optAB(fmtAB), p |-> optPos(<<"p">>, "ZeroOrMore", {})],
              <<"a", "b", "ab", "G", "p">>) :
        fmt \in {"DefaultFormatting", "Prefix", "Grouping"},
        fmtAB \in {"DefaultFormatting", "Prefix"} }

\* Programs that declare the positional p, or p and then q, in several ways.
PositionalPrograms ==
    { Program([a |-> optA("Optional", "ArgOptional", "DefaultFormatting", {}), b |-> optB,
               p |-> optPos(<<"p">>, occ, flags)],
              <<"a", "b", "G", "p">>) :
        occ \in {"Optional", "ZeroOrMore", "Required"},
        flags \in {{}, {"ConsumeAfter"}} }
    \cup
    { Program([a |-> optA("Optional", "ArgOptional", "DefaultFormatting", {}), b |-> optB,
               p |-> optPos(<<"p">>, occ, flags), q |-> optPos(<<"q">>, occQ, flagsQ)],
              <<"a", "b", "G", "p", "q">>) :
        occ \in {"Optional", "ZeroOrMore", "Required"},
        flags \in {{}, {"ConsumeAfter"}},
        occQ \in {"Optional", "Required"},
        flagsQ \in {{}, {"ConsumeAfter"}} }

Programs == NamedPrograms \cup OverlapPrograms \cup PositionalPrograms

\* CmdLine::CmdLine() initialises no member: maxPrefixLength_ starts with
\* whatever the memory holds, 0 or any other length.
MaxGarbage == 7
Indeterminate == {0, MaxGarbage}

\* A file system without files.
NoFiles == <<>>

\* The CmdLine of src/src/CmdLine.cpp is constructed without flags.
NoFlags == {}

\* The state after the program has constructed its objects and a CmdLine.
InitFrom(P, F, FL) ==
    \E prog \in P :
        /\ splitRange = NoRange
        /\ splitOut = <<>>
        /\ trimRef = NoRef
        /\ flags_ \in FL
        /\ errors_ = <<>>
        /\ unknowns_ = <<>>
        /\ files \in F
        /\ expandI = 0
        /\ responseFilesLeft = 0
        /\ obj = prog.obj
        /\ groupObj = prog.groupObj
        /\ toAdd = prog.order
        /\ parsesLeft = prog.parses
        /\ count_ = [o \in DOMAIN prog.obj |-> 0]
        /\ value_ = [o \in DOMAIN prog.obj |-> <<>>]
        /\ options_ = <<>>
        /\ groups_ = <<>>
        /\ positionals_ = <<>>
        /\ maxPrefixLength_ \in Indeterminate
        /\ args_ = <<>>
        /\ index_ = 0
        /\ dashdash = FALSE
        /\ currentPositional_ = 0
        /\ group = <<>>
        /\ groupPos = 0
        /\ pc = "config"
        /\ error = NoError

Init == InitFrom(Programs, {NoFiles}, {NoFlags})

session == [err |-> NoError, index |-> index_, count |-> count_, value |-> value_,
            cur |-> currentPositional_]

\* The program registers its next option object: cmd.add(opt).
AddOption ==
    /\ pc = "config"
    /\ toAdd # <<>>
    /\ Head(toAdd) \in DOMAIN obj
    /\ \E r \in {add(Head(toAdd),
                     [map |-> options_, pos |-> positionals_, mpl |-> maxPrefixLength_,
                      err |-> NoError])} :
           /\ options_' = r.map
           /\ positionals_' = r.pos
           /\ maxPrefixLength_' = r.mpl
           /\ error' = r.err
           /\ pc' = IF r.err = NoError THEN "config" ELSE "aborted"
    /\ toAdd' = Tail(toAdd)
    /\ UNCHANGED <<files, expandI, responseFilesLeft>>
    /\ UNCHANGED <<flags_, errors_, unknowns_>>
    /\ UNCHANGED <<splitRange, splitOut, trimRef>>
    /\ UNCHANGED <<obj, groupObj, count_, value_, groups_, args_, index_, dashdash,
                   currentPositional_, group, groupPos, parsesLeft>>

\* The program registers its next group: cmd.add(group).
AddGroup ==
    /\ pc = "config"
    /\ toAdd # <<>>
    /\ Head(toAdd) \in DOMAIN groupObj
    /\ LET g == Head(toAdd)
           name == groupObj[g].name_
       IN  IF name \in DOMAIN groups_
           THEN /\ error' = Err("DuplicateGroup", name)
                /\ pc' = "aborted"
                /\ UNCHANGED groups_
           ELSE /\ groups_' = (name :> g) @@ groups_
                /\ UNCHANGED <<error, pc>>
    /\ toAdd' = Tail(toAdd)
    /\ UNCHANGED <<files, expandI, responseFilesLeft>>
    /\ UNCHANGED <<flags_, errors_, unknowns_>>
    /\ UNCHANGED <<splitRange, splitOut, trimRef>>
    /\ UNCHANGED <<obj, groupObj, count_, value_, options_, positionals_, maxPrefixLength_,
                   args_, index_, dashdash, currentPositional_, group, groupPos, parsesLeft>>

\* parse(argv) that starts every option from count 0 again.
ParseArgvFrom_ResetsCounts(T) ==
    /\ pc \in {"config", "done", "thrown"}
    /\ toAdd = <<>>
    /\ parsesLeft > 0
    /\ \E argv \in Argvs(T) : args_' = argv
    /\ parsesLeft' = parsesLeft - 1
    /\ dashdash' = FALSE
    /\ currentPositional_' = 0
    /\ index_' = 0
    /\ error' = NoError
    /\ pc' = "parse"
    /\ count_' = [o \in DOMAIN count_ |-> 0]
    /\ UNCHANGED <<files, expandI, responseFilesLeft>>
    /\ UNCHANGED <<flags_, errors_, unknowns_>>
    /\ UNCHANGED <<splitRange, splitOut, trimRef>>
    /\ UNCHANGED <<obj, groupObj, toAdd, value_, options_, groups_, positionals_,
                   maxPrefixLength_, group, groupPos>>

\* CmdLine::parse(StringVector argv), up to the loop of parse().
ParseArgvFrom(T) ==
    /\ pc \in {"config", "done", "thrown"}
    /\ toAdd = <<>>
    /\ parsesLeft > 0
    /\ \E argv \in Argvs(T) : args_' = argv
    /\ parsesLeft' = parsesLeft - 1
    /\ dashdash' = FALSE
    /\ currentPositional_' = 0
    /\ index_' = 0
    /\ error' = NoError
    /\ pc' = "parse"
    /\ UNCHANGED <<files, expandI, responseFilesLeft>>
    /\ UNCHANGED <<flags_, errors_, unknowns_>>
    /\ UNCHANGED <<splitRange, splitOut, trimRef>>
    /\ UNCHANGED <<obj, groupObj, toAdd, count_, value_, options_, groups_, positionals_,
                   maxPrefixLength_, group, groupPos>>

ParseArgv == ParseArgvFrom(Tokens)

\* A turn of the loop of parse() without ++index_.
HandleArg_NoIncrement ==
    /\ pc = "parse"
    /\ index_ < Len(args_)
    /\ \E r \in {handleArg(session, dashdash)} :
           /\ count_' = r.s.count
           /\ value_' = r.s.value
           /\ currentPositional_' = r.s.cur
           /\ dashdash' = r.dd
           /\ error' = r.s.err
           /\ index_' = r.s.index
           /\ IF r.s.err # NoError
              THEN pc' = "thrown" /\ group' = <<>>
              ELSE IF r.grp # <<>>
              THEN pc' = "group" /\ group' = r.grp
              ELSE pc' = "parse" /\ group' = <<>>
    /\ UNCHANGED <<files, expandI, responseFilesLeft>>
    /\ UNCHANGED <<flags_, errors_, unknowns_>>
    /\ UNCHANGED <<splitRange, splitOut, trimRef>>
    /\ UNCHANGED <<obj, groupObj, toAdd, options_, groups_, positionals_, maxPrefixLength_,
                   args_, groupPos, parsesLeft>>

\* One turn of the loop of parse(): handleArg(dashdash), then ++index_.  For a
\* cluster of grouped options the turn goes on in GroupStep.  An assert() that
\* is false ends the process in a build that keeps the assert()s.
HandleArg ==
    /\ pc = "parse"
    /\ index_ < Len(args_)
    /\ \E r \in {handleArg(session, dashdash)}, a \in assertOutcomes(session, dashdash) :
           IF a # NoAssert
           THEN /\ pc' = "crashed"
                /\ error' = Err("AssertionFailed", a)
                /\ UNCHANGED <<count_, value_, currentPositional_, dashdash, index_, group>>
           ELSE /\ count_' = r.s.count
                /\ value_' = r.s.value
                /\ currentPositional_' = r.s.cur
                /\ dashdash' = r.dd
                /\ error' = r.s.err
                /\ IF r.s.err # NoError
                   THEN pc' = "thrown" /\ index_' = r.s.index /\ group' = <<>>
                   ELSE IF r.grp # <<>>
                   THEN pc' = "group" /\ index_' = r.s.index /\ group' = r.grp
                   ELSE pc' = "parse" /\ index_' = r.s.index + 1 /\ group' = <<>>
    /\ UNCHANGED <<files, expandI, responseFilesLeft>>
    /\ UNCHANGED <<flags_, errors_, unknowns_>>
    /\ UNCHANGED <<splitRange, splitOut, trimRef>>
    /\ UNCHANGED <<obj, groupObj, toAdd, options_, groups_, positionals_, maxPrefixLength_,
                   args_, groupPos, parsesLeft>>

\* One turn of the last loop of handleGroup: addOccurrence(group[n], letter).
\* After the last turn handleArg returns and the loop of parse() does ++index_.
GroupStep ==
    /\ pc = "group"
    /\ \E t \in {addOccurrence(group[groupPos + 1][1], group[groupPos + 1][2], session)},
          last \in {groupPos + 1 = Len(group)} :
           /\ count_' = t.count
           /\ value_' = t.value
           /\ error' = t.err
           /\ IF t.err # NoError
              THEN pc' = "thrown" /\ index_' = t.index /\ group' = <<>> /\ groupPos' = 0
              ELSE IF last
              THEN pc' = "parse" /\ index_' = t.index + 1 /\ group' = <<>> /\ groupPos' = 0
              ELSE pc' = "group" /\ index_' = t.index /\ group' = group
                   /\ groupPos' = groupPos + 1
    /\ UNCHANGED <<files, expandI, responseFilesLeft>>
    /\ UNCHANGED <<flags_, errors_, unknowns_>>
    /\ UNCHANGED <<splitRange, splitOut, trimRef>>
    /\ UNCHANGED <<obj, groupObj, toAdd, options_, groups_, positionals_, maxPrefixLength_,
                   args_, dashdash, currentPositional_, parsesLeft>>

\* The loop of parse() has ended: check().
Check ==
    /\ pc = "parse"
    /\ index_ >= Len(args_)
    /\ error' = check
    /\ pc' = IF error' = NoError THEN "done" ELSE "thrown"
    /\ UNCHANGED <<files, expandI, responseFilesLeft>>
    /\ UNCHANGED <<flags_, errors_, unknowns_>>
    /\ UNCHANGED <<splitRange, splitOut, trimRef>>
    /\ UNCHANGED <<obj, groupObj, toAdd, count_, value_, options_, groups_, positionals_,
                   maxPrefixLength_, args_, index_, dashdash, currentPositional_, group,
                   groupPos, parsesLeft>>

Next == AddOption \/ AddGroup \/ ParseArgv \/ HandleArg \/ GroupStep \/ Check

Spec == Init /\ [][Next]_vars

(***************************************************************************)
(* Programs with a group of every type over a and b, beside an option r    *)
(* that may be required.                                                   *)
(***************************************************************************)

optFlag(name, occ) ==
    [OptionBase EXCEPT !.name_ = name, !.numOccurrences_ = occ, !.IsScalar = FALSE]

GroupPrograms ==
    { [obj |-> [a |-> optFlag(<<"a">>, "ZeroOrMore"), b |-> optFlag(<<"b">>, "ZeroOrMore"),
                r |-> optFlag(<<"r">>, occ)],
       groupObj |-> [G |-> [name_ |-> <<"g">>, type_ |-> type, options_ |-> <<"a", "b">>]],
       order |-> <<"a", "b", "r", "G">>,
       parses |-> 1] :
        type \in GroupType, occ \in {"ZeroOrMore", "Required"} }

GroupTokens == { <<Dash, "a">>, <<Dash, "b">>, <<Dash, "r">> }

InitGroups == InitFrom(GroupPrograms, {NoFiles}, {NoFlags})

ParseGroups == ParseArgvFrom(GroupTokens)

NextGroups == AddOption \/ AddGroup \/ ParseGroups \/ HandleArg \/ Check

SpecGroups == InitGroups /\ [][NextGroups]_vars

(***************************************************************************)
(* Programs whose option z has typed values (as z of src/test/Test.cpp).   *)
(***************************************************************************)

\* Option z: an int, a vector of ints or a set of ints.
optZ(occ, na, flags, scalar, container) ==
    [OptionBase EXCEPT !.name_ = <<"z">>, !.argName_ = <<"i", "n", "t">>,
                       !.numOccurrences_ = occ, !.numArgs_ = na, !.miscFlags_ = flags,
                       !.parser = "int", !.IsScalar = scalar, !.container = container]

ValuePrograms ==
    { Program([z |-> optZ(occ, na, flags, st[1], st[2])], <<"z">>) :
        occ \in {"ZeroOrMore", "Optional"},
        na \in {"ArgRequired", "ArgOptional"},
        flags \in {{}, {"CommaSeparated"}},
        st \in {<<TRUE, "vector">>, <<FALSE, "vector">>, <<FALSE, "set">>} }

ValueTokens ==
    { <<Dash, Dash, "z", Eq, "1", Comma, "2", Comma, "3">>,
      <<Dash, Dash, "z", Eq, "3", Comma, "1", Comma, "1">>,
      <<Dash, Dash, "z", Eq, "1", Comma, "x", Comma, "2">>,
      <<Dash, Dash, "z", Eq, Dash, "7", Comma, "0", "1", "0">>,
      <<Dash, "z">>,
      <<"2", Comma, "1">> }

InitValues == InitFrom(ValuePrograms, {NoFiles}, {NoFlags})

ParseValues == ParseArgvFrom(ValueTokens)

NextValues == AddOption \/ ParseValues \/ HandleArg \/ Check

SpecValues == InitValues /\ [][NextValues]_vars


(***************************************************************************)
(* Response files                                                          *)
(***************************************************************************)

Space == " "
At == "@"

\* The words of a text: its maximal runs of characters other than white
\* space, in order.  cur is the word being read, out the words read so far.
RECURSIVE words(_, _, _)
words(text, cur, out) ==
    IF text = <<>>
    THEN IF cur = <<>> THEN out ELSE Append(out, cur)
    ELSE IF Head(text) = Space
    THEN words(Tail(text), <<>>, IF cur = <<>> THEN out ELSE Append(out, cur))
    ELSE words(Tail(text), Append(cur, Head(text)), out)

\* tokenizeCommandLineUnix of Support/CmdLineToArgv.h: shell-like word
\* splitting.  The texts of the files below hold no quote and no escape
\* character, so that their tokens are their white-space separated words.
tokenizeCommandLineUnix(text) == words(text, <<>>, <<>>)

\* expandResponseFile, with the tokens of the file put after the last argument.
expandResponseFile_AtTheEnd(args, i, fs) ==
    LET name == substr(args[i + 1], 1, npos)
    IN  IF name \notin DOMAIN fs
        THEN [err |-> Err("IoError", name), args |-> args]
        ELSE [err |-> NoError,
              args |-> SubSeq(args, 1, i) \o SubSeq(args, i + 2, Len(args))
                       \o tokenizeCommandLineUnix(fs[name])]

\* CmdLine::expandResponseFile(i): open the file named by args[i] without its
\* first character (a failure throws), erase args[i] and insert the tokens
\* of the file at position i.
expandResponseFile(args, i, fs) ==
    LET name == substr(args[i + 1], 1, npos)
    IN  IF name \notin DOMAIN fs
        THEN [err |-> Err("IoError", name), args |-> args]
        ELSE [err |-> NoError,
              args |-> SubSeq(args, 1, i) \o tokenizeCommandLineUnix(fs[name])
                       \o SubSeq(args, i + 2, Len(args))]

\* CmdLine::expandResponseFiles, line 183: the initial value of responseFilesLeft.
MaxResponseFiles == 100

\* The turn of the loop, with responseFilesLeft left as it is.
expandResponseFiles_NoCountDown(args, i, left, fs) ==
    IF charAt(args[i + 1], 0) # At
    THEN [err |-> NoError, args |-> args, i |-> i + 1, left |-> left]
    ELSE LET r == expandResponseFile(args, i, fs)
         IN  IF r.err # NoError
             THEN [err |-> r.err, args |-> args, i |-> i, left |-> left]
             ELSE [err |-> NoError, args |-> r.args, i |-> i, left |-> left]

\* One turn of the loop of CmdLine::expandResponseFiles: a token that does
\* not start with '@' is skipped; any other is expanded, i stays, and the
\* turn throws when --responseFilesLeft is 0.
expandResponseFiles(args, i, left, fs) ==
    IF charAt(args[i + 1], 0) # At
    THEN [err |-> NoError, args |-> args, i |-> i + 1, left |-> left]
    ELSE LET r == expandResponseFile(args, i, fs)
         IN  IF r.err # NoError
             THEN [err |-> r.err, args |-> args, i |-> i, left |-> left]
             ELSE [err |-> IF left - 1 = 0
                           THEN Err("TooManyResponseFiles", <<>>)
                           ELSE NoError,
                   args |-> r.args, i |-> i, left |-> left - 1]

\* The names of the files.
File == <<"f", "i", "l", "e">>
FileG == <<"g">>
FileH == <<"h">>
FileK == <<"k">>

\* A file system whose files refer to each other without a cycle (k is
\* missing), and one where file refers to itself, g and h to each other and
\* k, after a word, to g.
FileSystems ==
    { (File :> <<Dash, Dash, "x", Space, "1", Space, Dash, Dash, "y", Space, "2">>)
      @@ (FileG :> <<"x", Space, Space, At>> \o File \o <<Space, At, "h", Space>>)
      @@ (FileH :> <<>>),
      (File :> <<At>> \o File)
      @@ (FileG :> <<At, "h">>)
      @@ (FileH :> <<At, "g">>)
      @@ (FileK :> <<"x", Space, At, "g">>) }

ExpandTokens == { <<At>> \o File, <<At, "g">>, <<At, "k">>, <<"x">> }

\* Options x and y, each with a required argument, beside the positional p.
optArg(name) ==
    [OptionBase EXCEPT !.name_ = name, !.numOccurrences_ = "ZeroOrMore",
                       !.numArgs_ = "ArgRequired", !.IsScalar = FALSE]

ExpandPrograms ==
    { Program([x |-> optArg(<<"x">>), y |-> optArg(<<"y">>),
               p |-> optPos(<<"p">>, "ZeroOrMore", {})],
              <<"x", "y", "p">>) }

InitExpand == InitFrom(ExpandPrograms, FileSystems, {NoFlags})

\* CmdLine::expandAndParse(StringVector argv), up to the loop of
\* expandResponseFiles.
ExpandAndParseFrom(T) ==
    /\ pc \in {"config", "done", "thrown"}
    /\ toAdd = <<>>
    /\ parsesLeft > 0
    /\ \E argv \in Argvs(T) : args_' = argv
    /\ parsesLeft' = parsesLeft - 1
    /\ expandI' = 0
    /\ responseFilesLeft' = MaxResponseFiles
    /\ error' = NoError
    /\ pc' = "expand"
    /\ UNCHANGED files
    /\ UNCHANGED <<flags_, errors_, unknowns_>>
    /\ UNCHANGED <<splitRange, splitOut, trimRef>>
    /\ UNCHANGED <<obj, groupObj, toAdd, count_, value_, options_, groups_, positionals_,
                   maxPrefixLength_, index_, dashdash, currentPositional_, group, groupPos>>

ExpandAndParse == ExpandAndParseFrom(ExpandTokens)

\* One turn of the loop of expandResponseFiles.
ExpandStep ==
    /\ pc = "expand"
    /\ expandI < Len(args_)
    /\ \E r \in {expandResponseFiles(args_, expandI, responseFilesLeft, files)} :
           /\ args_' = r.args
           /\ expandI' = r.i
           /\ responseFilesLeft' = r.left
           /\ error' = r.err
           /\ pc' = IF r.err # NoError THEN "thrown" ELSE "expand"
    /\ UNCHANGED files
    /\ UNCHANGED <<flags_, errors_, unknowns_>>
    /\ UNCHANGED <<splitRange, splitOut, trimRef>>
    /\ UNCHANGED <<obj, groupObj, toAdd, count_, value_, options_, groups_, positionals_,
                   maxPrefixLength_, index_, dashdash, currentPositional_, group, groupPos,
                   parsesLeft>>

\* The loop of expandResponseFiles has ended: expandAndParse goes on with
\* parse(), up to its loop.
ExpandEnd ==
    /\ pc = "expand"
    /\ expandI >= Len(args_)
    /\ dashdash' = FALSE
    /\ currentPositional_' = 0
    /\ index_' = 0
    /\ pc' = "parse"
    /\ UNCHANGED <<files, expandI, responseFilesLeft>>
    /\ UNCHANGED <<flags_, errors_, unknowns_>>
    /\ UNCHANGED <<splitRange, splitOut, trimRef>>
    /\ UNCHANGED <<obj, groupObj, toAdd, count_, value_, options_, groups_, positionals_,
                   maxPrefixLength_, args_, group, groupPos, parsesLeft, error>>

NextExpand == AddOption \/ ExpandAndParse \/ ExpandStep \/ ExpandEnd \/ HandleArg \/ Check

\* expandAndParse runs on: a turn of the loop of expandResponseFiles that can
\* be taken is taken, and so is the step that follows the loop.
SpecExpand == InitExpand /\ [][NextExpand]_vars /\ WF_vars(ExpandStep \/ ExpandEnd)

(***************************************************************************)
(* Response files that take about MaxResponseFiles expansions              *)
(***************************************************************************)

\* The text that is n times the word followed by a space.
RECURSIVE repeated(_, _)
repeated(word, n) == IF n = 0 THEN <<>> ELSE word \o <<Space>> \o repeated(word, n - 1)

\* The square root of MaxResponseFiles.
Width == CHOOSE w \in 1..MaxResponseFiles : w * w = MaxResponseFiles

FileD == <<"d">>
FileE == <<"e">>
FileM == <<"m">>
FileN == <<"n">>

\* e is empty and d refers Width - 1 times to e: the expansion of @d takes
\* Width expansions.  n refers Width - 1 times to d and Width - 1 times to
\* e, and m once less to e: the expansion of @n takes MaxResponseFiles
\* expansions and that of @m MaxResponseFiles - 1.
ManyFiles ==
    (FileE :> <<>>)
    @@ (FileD :> repeated(<<At, "e">>, Width - 1))
    @@ (FileM :> repeated(<<At, "d">>, Width - 1) \o repeated(<<At, "e">>, Width - 2))
    @@ (FileN :> repeated(<<At, "d">>, Width - 1) \o repeated(<<At, "e">>, Width - 1))

ManyTokens == { <<At, "m">>, <<At, "n">>, <<At, "e">>, <<"x">> }

InitMany == InitFrom(ExpandPrograms, {ManyFiles}, {NoFlags})

ExpandAndParseMany == ExpandAndParseFrom(ManyTokens)

NextMany == AddOption \/ ExpandAndParseMany \/ ExpandStep \/ ExpandEnd \/ HandleArg \/ Check

SpecMany == InitMany /\ [][NextMany]_vars


(***************************************************************************)
(* Programs that register options whose aliases collide, some of them      *)
(* without a name, and go on after an add() that has thrown.               *)
(***************************************************************************)

optNamed(name, fmt) ==
    [OptionBase EXCEPT !.name_ = name, !.numOccurrences_ = "ZeroOrMore",
                       !.formatting_ = fmt, !.IsScalar = FALSE]

\* An option without a name: its parser gives the allowed values (as the
\* optimization level of src/test/Test.cpp, with O0 to O3).
optValues(values) ==
    [OptionBase EXCEPT !.name_ = <<>>, !.allowedValues = values,
                       !.numOccurrences_ = "ZeroOrMore", !.numArgs_ = "ArgDisallowed",
                       !.IsScalar = FALSE]

RegistryObjects ==
    [a |-> optNamed(<<"a">>, "DefaultFormatting"),
     ba |-> optNamed(<<"b", Pipe, "a">>, "Prefix"),
     u |-> optValues(<< <<"z">>, <<"b">> >>),
     v |-> optValues(<< <<"x">>, <<"z">> >>),
     w |-> optValues(<< <<"y">> >>)]

\* How many options a program registers at most.
MaxOptions == 3

\* The programs register up to MaxOptions of the objects, each once, in any order.
RegistryPrograms ==
    { [obj |-> RegistryObjects, groupObj |-> <<>>, order |-> q, parses |-> 1] :
        q \in {r \in UNION {[1..n -> DOMAIN RegistryObjects] : n \in 1..MaxOptions} :
                 \A i, j \in DOMAIN r : i # j => r[i] # r[j]} }

RegistryTokens == { <<Dash, "a">>, <<Dash, "z">>, <<Dash, "b", "q">> }

InitRegistry == InitFrom(RegistryPrograms, {NoFiles}, {NoFlags})

\* The program registers its next option object and catches what add() throws.
TryAddOption ==
    /\ pc = "config"
    /\ toAdd # <<>>
    /\ Head(toAdd) \in DOMAIN obj
    /\ \E r \in {add(Head(toAdd),
                     [map |-> options_, pos |-> positionals_, mpl |-> maxPrefixLength_,
                      err |-> NoError])} :
           /\ options_' = r.map
           /\ positionals_' = r.pos
           /\ maxPrefixLength_' = r.mpl
           /\ error' = r.err
    /\ toAdd' = Tail(toAdd)
    /\ UNCHANGED <<files, expandI, responseFilesLeft>>
    /\ UNCHANGED <<flags_, errors_, unknowns_>>
    /\ UNCHANGED <<splitRange, splitOut, trimRef>>
    /\ UNCHANGED <<obj, groupObj, count_, value_, groups_, args_, index_, dashdash,
                   currentPositional_, group, groupPos, parsesLeft, pc>>

ParseRegistry == ParseArgvFrom(RegistryTokens)

NextRegistry == AddOption \/ TryAddOption \/ ParseRegistry \/ HandleArg \/ Check

SpecRegistry == InitRegistry /\ [][NextRegistry]_vars


(***************************************************************************)
(* The engine with flags of src/include/Support/CmdLine.h: parse() returns *)
(* a bool, the errors go to errors_ and the unknown tokens to unknowns_.    *)
(* The dispatch of a token is that of src/src/CmdLine.cpp; what becomes of *)
(* its error is not in the source and follows the specification.           *)
(***************************************************************************)

\* enum CmdLineFlags, the two that decide what becomes of an error.
CmdLineFlags == {"AllowUnknownOptions", "StopOnFirstError"}

\* isTolerated that tolerates nothing.
isTolerated_Never(err, fl) == FALSE

\* The error is that of an unknown option and unknown options are tolerated.
isTolerated(err, fl) == err.kind = "UnknownOption" /\ "AllowUnknownOptions" \in fl

\* stopsParse that never stops.
stopsParse_Never(fl) == FALSE

\* A runtime error ends the parse at once.
stopsParse(fl) == "StopOnFirstError" \in fl

\* recordError that keeps the last error only.
recordError_LastOnly(errs, err) == <<err>>

\* The error list after err has been recorded.
recordError(errs, err) == Append(errs, err)

\* The errors of the passes that follow the dispatch: the group validator,
\* then the final check of the required options; in stop-on-first-error mode
\* the second is not run after the first has failed.
postPassErrors(fl) ==
    LET g == firstFailingGroup(keysInOrder(DOMAIN groups_))
        o == firstMissing(getUniqueOptions \o positionals_)
    IN  (IF g # "null" THEN <<Err("GroupConstraintViolated", groupObj[g].name_)>> ELSE <<>>)
        \o (IF o # "null" /\ ~(g # "null" /\ stopsParse(fl))
            THEN <<Err("MissingRequiredOption", displayName(o))>> ELSE <<>>)

\* Option a|c, which may occur once, and the positional p, which may too.
FlagPrograms ==
    { Program([a |-> optA(occ, na, "DefaultFormatting", {}),
               p |-> optPos(<<"p">>, "Optional", {})],
              <<"a", "p">>) :
        occ \in {"Optional", "Required"}, na \in {"ArgOptional", "ArgRequired"} }

FlagTokens == { <<Dash, "a">>, <<Dash, "q">>, <<"x">> }

InitFlags == InitFrom(FlagPrograms, {NoFiles}, SUBSET CmdLineFlags)

ParseFlags == ParseArgvFrom(FlagTokens)

\* One turn of the loop of parse(): the token is dispatched by handleArg; an
\* unknown option that is tolerated goes to unknowns_, any other error to
\* errors_, and the parse ends there or goes on with the next token.
DispatchToken ==
    /\ pc = "parse"
    /\ index_ < Len(args_)
    /\ \E r \in {handleArg(session, dashdash)} :
           /\ r.grp = <<>>
           /\ count_' = r.s.count
           /\ value_' = r.s.value
           /\ currentPositional_' = r.s.cur
           /\ dashdash' = r.dd
           /\ unknowns_' = IF isTolerated(r.s.err, flags_)
                           THEN Append(unknowns_, args_[index_ + 1]) ELSE unknowns_
           /\ errors_' = IF r.s.err = NoError \/ isTolerated(r.s.err, flags_)
                         THEN errors_ ELSE recordError(errors_, r.s.err)
           /\ IF r.s.err # NoError /\ ~isTolerated(r.s.err, flags_) /\ stopsParse(flags_)
              THEN pc' = "failed" /\ index_' = index_
              ELSE pc' = "parse" /\ index_' = (IF r.s.err = NoError THEN r.s.index ELSE index_) + 1
    /\ UNCHANGED <<files, expandI, responseFilesLeft, flags_>>
    /\ UNCHANGED <<splitRange, splitOut, trimRef>>
    /\ UNCHANGED <<obj, groupObj, toAdd, options_, groups_, positionals_, maxPrefixLength_,
                   args_, group, groupPos, parsesLeft, error>>

\* The loop of parse() has ended: the passes after the dispatch, and the
\* bool that parse() returns.
Finish ==
    /\ pc = "parse"
    /\ index_ >= Len(args_)
    /\ errors_' = errors_ \o postPassErrors(flags_)
    /\ pc' = IF errors_' = <<>> THEN "done" ELSE "failed"
    /\ UNCHANGED <<files, expandI, responseFilesLeft, flags_, unknowns_>>
    /\ UNCHANGED <<splitRange, splitOut, trimRef>>
    /\ UNCHANGED <<obj, groupObj, toAdd, count_, value_, options_, groups_, positionals_,
                   maxPrefixLength_, args_, index_, dashdash, currentPositional_, group,
                   groupPos, parsesLeft, error>>

NextFlags == AddOption \/ ParseFlags \/ DispatchToken \/ Finish

SpecFlags == InitFlags /\ [][NextFlags]_vars

(***************************************************************************)
(* The loop of parse() as a process that keeps running: programs whose     *)
(* option a may take the next token as its argument and may be clustered,  *)
(* beside the positional p.                                                *)
(***************************************************************************)

LoopPrograms ==
    { [obj |-> [a |-> [optA(occ, na, fmt, {}) EXCEPT !.name_ = <<"a">>],
                p |-> optPos(<<"p">>, "Optional", {})],
       groupObj |-> <<>>, order |-> <<"a", "p">>, parses |-> 1] :
        occ \in {"Optional", "ZeroOrMore"}, na \in NumArgs,
        fmt \in {"DefaultFormatting", "Grouping"} }

LoopTokens == { <<Dash, Dash>>, <<"x">>, <<Dash, "a">>, <<Dash, "a", "a">> }

InitLoop == InitFrom(LoopPrograms, {NoFiles}, {NoFlags})

ParseLoop == ParseArgvFrom(LoopTokens)

NextLoop == AddOption \/ ParseLoop \/ HandleArg \/ GroupStep \/ Check

\* parse() is sequential code: once called it runs its loop and check()
\* until it returns or throws.
SpecLoop ==
    InitLoop /\ [][NextLoop]_vars /\ WF_vars(HandleArg \/ GroupStep \/ Check)

(***************************************************************************)
(* Programs that call parse(argv) several times on the same CmdLine.       *)
(***************************************************************************)

\* The number of calls of parse.
MaxParses == 2

AgainPrograms ==
    { [obj |-> [a |-> optA(occ, "ArgOptional", "DefaultFormatting", {}),
                p |-> optPos(<<"p">>, "ZeroOrMore", {})],
       groupObj |-> <<>>, order |-> <<"a", "p">>, parses |-> MaxParses] :
        occ \in NumOccurrences }

AgainTokens == { <<Dash, "a">>, <<"x">> }

InitAgain == InitFrom(AgainPrograms, {NoFiles}, {NoFlags})

ParseAgain == ParseArgvFrom(AgainTokens)

NextAgain == AddOption \/ ParseAgain \/ HandleArg \/ Check

SpecAgain == InitAgain /\ [][NextAgain]_vars

(***************************************************************************)
(* Programs whose argument vectors hold tokens with two dashes, beside the *)
(* same names with one dash.                                               *)
(***************************************************************************)

LongPrograms ==
    { Program([a |-> optA("ZeroOrMore", "ArgOptional", fmt, {}), b |-> optB,
               p |-> optPos(<<"p">>, "ZeroOrMore", {})],
              <<"a", "b", "G", "p">>) :
        fmt \in {"DefaultFormatting", "Prefix", "Grouping"} }
    \cup
    { Program([a |-> optA("ZeroOrMore", "ArgOptional", "Grouping", {}), b |-> optB,
               ab |-> optAB("DefaultFormatting"),
               p |-> optPos(<<"p">>, "ZeroOrMore", {})],
              <<"a", "b", "ab", "G", "p">>) }

LongTokens ==
    { <<Dash, Dash, "a", "b">>, <<Dash, "a", "b">>, <<Dash, Dash, "b">>, <<"x">> }

InitLong == InitFrom(LongPrograms, {NoFiles}, {NoFlags})

ParseLong == ParseArgvFrom(LongTokens)

NextLong == AddOption \/ AddGroup \/ ParseLong \/ HandleArg \/ GroupStep \/ Check

SpecLong == InitLong /\ [][NextLong]_vars

(***************************************************************************)
(* Programs whose argument vectors hold the empty token and the tokens     *)
(* made of dashes only.                                                    *)
(***************************************************************************)

DashTokens ==
    { <<>>, <<Dash>>, <<Dash, Dash>>, <<Dash, Dash, Dash>>, <<Dash, "a">>, <<"x">> }

InitDashes == InitFrom(LongPrograms, {NoFiles}, {NoFlags})

ParseDashes == ParseArgvFrom(DashTokens)

NextDashes == AddOption \/ AddGroup \/ ParseDashes \/ HandleArg \/ Check

SpecDashes == InitDashes /\ [][NextDashes]_vars

(***************************************************************************)
(* Programs that put an option into a group once or twice: the option a    *)
(* is constructed with the group among its arguments and the program calls *)
(* group.add(a) as well.                                                   *)
(***************************************************************************)

TwicePrograms ==
    { [obj |-> [a |-> optFlag(<<"a">>, "ZeroOrMore"), b |-> optFlag(<<"b">>, "ZeroOrMore")],
       groupObj |-> [G |-> [name_ |-> <<"g">>, type_ |-> type, options_ |-> members]],
       order |-> <<"a", "b", "G">>,
       parses |-> 1] :
        type \in GroupType, members \in {<<"a", "b">>, <<"a", "b", "a">>} }

TwiceTokens == { <<Dash, "a">>, <<Dash, "b">> }

InitTwice == InitFrom(TwicePrograms, {NoFiles}, {NoFlags})

ParseTwice == ParseArgvFrom(TwiceTokens)

NextTwice == AddOption \/ AddGroup \/ ParseTwice \/ HandleArg \/ Check

SpecTwice == InitTwice /\ [][NextTwice]_vars

(***************************************************************************)
(* strings::split as the iteration of a Split_range: a program builds the  *)
(* range split(Str, Delim) and collects its tokens into a container.       *)
(***************************************************************************)

\* The longest string that is split or trimmed.
MaxLen == 4

RECURSIVE StringsOver(_, _)
StringsOver(chars, n) ==
    IF n = 0 THEN {<<>>}
    ELSE StringsOver(chars, n - 1)
         \cup {Append(w, c) : w \in {v \in StringsOver(chars, n - 1) : Len(v) = n - 1},
                              c \in chars}

\* The strings of Test7 and Test7_1 of src/test/StringSplitTest.cpp.
Test7 == <<Dash, "a", Dash, "b", Dash, "c", Dash, Dash, Dash, Dash, "d">>

SplitStrings == StringsOver({"a", Dash, Comma}, MaxLen) \cup {Test7}

SplitDelims == { <<Comma>>, <<Dash>>, <<Dash, Dash>> }

\* No CmdLine takes part.
NoCmdLine ==
    /\ flags_ = NoFlags
    /\ errors_ = <<>>
    /\ unknowns_ = <<>>
    /\ files = NoFiles
    /\ expandI = 0
    /\ responseFilesLeft = 0
    /\ obj = <<>>
    /\ groupObj = <<>>
    /\ toAdd = <<>>
    /\ parsesLeft = 0
    /\ count_ = <<>>
    /\ value_ = <<>>
    /\ options_ = <<>>
    /\ groups_ = <<>>
    /\ positionals_ = <<>>
    /\ maxPrefixLength_ = 0
    /\ args_ = <<>>
    /\ index_ = 0
    /\ dashdash = FALSE
    /\ currentPositional_ = 0
    /\ group = <<>>
    /\ groupPos = 0
    /\ pc = "strings"
    /\ error = NoError

\* Split_range::Split_range up to its call of next(): Tok(Str), Pos(0).
InitSplit ==
    /\ NoCmdLine
    /\ \E Str \in SplitStrings, Delim \in SplitDelims :
           splitRange = [Str |-> Str, Delim |-> Delim, Tok |-> Str, Pos |-> 0, it |-> "new"]
    /\ splitOut = <<>>
    /\ trimRef = NoRef

\* Split_range::increment: the next token and the start of the rest.
increment(R) ==
    LET S == drop_front(R.Str, R.Pos)
        Sep == LiteralDelimiter(R.Delim, S)
    IN  IF Sep[1] = npos
        THEN [R EXCEPT !.Tok = S, !.Pos = npos]
        ELSE [R EXCEPT !.Tok = front(S, Sep[1]), !.Pos = R.Pos + Sep[1] + Sep[2]]

\* Split_range::next with the predicate KeepEmpty, and what Split_iterator
\* does with its result: the iterator is at a token or past the end.
next(R) == IF R.Pos = npos THEN [R EXCEPT !.it = "end"] ELSE [increment(R) EXCEPT !.it = "valid"]

\* The constructor calls next(); begin() is the iterator at the first token.
SplitBegin ==
    /\ splitRange.it = "new"
    /\ splitRange' = next(splitRange)
    /\ UNCHANGED <<splitOut, trimRef>>
    /\ UNCHANGED <<files, expandI, responseFilesLeft, flags_, errors_, unknowns_>>
    /\ UNCHANGED <<obj, groupObj, toAdd, count_, value_, options_, groups_, positionals_,
                   maxPrefixLength_, args_, index_, dashdash, currentPositional_, group,
                   groupPos, parsesLeft, pc, error>>

\* One turn of the container's constructor T(begin(), end()): push_back(*it),
\* then ++it.
SplitCollect ==
    /\ splitRange.it = "valid"
    /\ splitOut' = Append(splitOut, splitRange.Tok)
    /\ splitRange' = next(splitRange)
    /\ UNCHANGED trimRef
    /\ UNCHANGED <<files, expandI, responseFilesLeft, flags_, errors_, unknowns_>>
    /\ UNCHANGED <<obj, groupObj, toAdd, count_, value_, options_, groups_, positionals_,
                   maxPrefixLength_, args_, index_, dashdash, currentPositional_, group,
                   groupPos, parsesLeft, pc, error>>

NextSplit == SplitBegin \/ SplitCollect

SpecSplit == InitSplit /\ [][NextSplit]_vars

(***************************************************************************)
(* StringRef::trim_right, called on a string and again on its result.      *)
(***************************************************************************)

Tab == "\t"

\* The number of calls of trim_right in a row.
MaxCalls == 2

TrimStrings == StringsOver({Space, Tab, "a"}, MaxLen)

\* The characters to remove: the default " \t\n\v\f\r", cut to the characters
\* of TrimStrings, and the space alone.
TrimChars == { <<Space, Tab>>, <<Space>> }

InitTrim ==
    /\ NoCmdLine
    /\ splitRange = NoRange
    /\ splitOut = <<>>
    /\ \E str \in TrimStrings, Chars \in TrimChars :
           trimRef = [str |-> str, Chars |-> Chars, calls |-> 0]

\* traits_type::find(Chars.data(), Chars.size(), ch) is not null.
inChars(Chars, ch) == \E i \in 1..Len(Chars) : Chars[i] = ch

\* StringRef::find_last_not_of(Chars, From = npos): the position of the last
\* character that is not in Chars, or npos.
find_last_not_of(str, Chars) ==
    LET others == {I \in 1..Len(str) : ~inChars(Chars, str[I])}
    IN  IF others = {} THEN npos
        ELSE (CHOOSE I \in others : \A J \in others : J <= I) - 1

\* StringRef::trim_right
trim_right(str, Chars) ==
    LET I == find_last_not_of(str, Chars)
    IN  front(str, IF I = npos THEN npos ELSE I + 1)

\* The program replaces the string by str.trim_right(Chars).
TrimRight ==
    /\ trimRef.calls \in 0..(MaxCalls - 1)
    /\ trimRef' = [trimRef EXCEPT !.str = trim_right(trimRef.str, trimRef.Chars),
                                  !.calls = @ + 1]
    /\ UNCHANGED <<splitRange, splitOut>>
    /\ UNCHANGED <<files, expandI, responseFilesLeft, flags_, errors_, unknowns_>>
    /\ UNCHANGED <<obj, groupObj, toAdd, count_, value_, options_, groups_, positionals_,
                   maxPrefixLength_, args_, index_, dashdash, currentPositional_, group,
                   groupPos, parsesLeft, pc, error>>

NextTrim == TrimRight

SpecTrim == InitTrim /\ [][NextTrim]_vars


(***************************************************************************)
(* Properties                                                              *)
(***************************************************************************)

\* The registered options: those of the alias map and the positionals.
NamedOptions == {options_[k] : k \in DOMAIN options_}
PositionalOptions == {positionals_[i] : i \in 1..Len(positionals_)}
Registered == NamedOptions \cup PositionalOptions

\* A call of parse(argv) has returned or thrown.
ParseEnded == pc \in {"done", "thrown"}

\* The errors the dispatch of a token can raise.
DispatchErrors ==
    {"UnknownOption", "UnhandledPositional", "MissingArgument", "MissingArgumentInGroup",
     "UnexpectedArgument", "AlreadySpecified"}

\* A registered option o whose policy is Required has not occurred.
RequiredMissing(o) ==
    o \in Registered /\ obj[o].numOccurrences_ = "Required" /\ count_[o] = 0

\* C1, as claimed: after parsing any token vector in which a registered option
\* with policy Required never occurs, the parse has failed with
\* MissingRequiredOption naming that option.
C1_AsClaimed ==
    ParseEnded =>
        \A o \in Registered :
            RequiredMissing(o) =>
                pc = "thrown" /\ error = Err("MissingRequiredOption", displayName(o))

\* C1, amended: after parsing any token vector in which a registered option
\* with policy Required never occurs, the parse has failed; unless the
\* dispatch of a token raised the error, the error is MissingRequiredOption,
\* and it names that option or another option that is required and missing
\* (check() throws for the first one it meets).
C1_RequiredMissingFails ==
    ParseEnded =>
        \A o \in Registered :
            RequiredMissing(o) =>
                /\ pc = "thrown"
                /\ \/ error.kind \in DispatchErrors
                   \/ /\ error.kind = "MissingRequiredOption"
                      /\ \/ error.what = displayName(o)
                         \/ \E o2 \in Registered \ {o} :
                                /\ isOccurrenceRequired(o2, count_)
                                /\ error.what = displayName(o2)

\* C1 witness: every token of a non-empty vector was dispatched, and the parse
\* failed with MissingRequiredOption naming a positional option with policy
\* Required that did not occur.
C1_Witness ==
    /\ pc = "thrown"
    /\ Len(args_) > 0
    /\ index_ = Len(args_)
    /\ \E o \in PositionalOptions :
           RequiredMissing(o) /\ error = Err("MissingRequiredOption", displayName(o))

\* C2, as claimed: in every reachable state an option whose policy is Optional
\* or Required has count <= 1, CommaSeparated options included.
C2_AsClaimed ==
    \A o \in DOMAIN obj :
        obj[o].numOccurrences_ \in {"Optional", "Required"} => count_[o] <= 1


\* The loop of parse() is about to dispatch the token Token.
Dispatching == pc = "parse" /\ index_ < Len(args_)
Token == args_[index_ + 1]

\* Token goes to the named-option handlers: it starts with a dash, is not "-",
\* and dashdash is not set (a "--" is then the marker, not an option).
OptionToken ==
    /\ Dispatching
    /\ ~dashdash
    /\ Len(Token) >= 2
    /\ Token[1] = Dash
    /\ Token # <<Dash, Dash>>

\* Token without its one or two leading dashes.
Stripped == IF Token[2] = Dash THEN SubSeq(Token, 3, Len(Token)) ELSE Tail(Token)

\* The text before the first "=" of the stripped token.
BeforeEq == front(Stripped, find(Stripped, Eq))

\* The step about to be taken gives option o an occurrence without an inline
\* value: the stripped token is one of its aliases, or o is the member of a
\* cluster whose turn it is.
OccursBare(o) ==
    \/ OptionToken /\ Stripped \in DOMAIN options_ /\ options_[Stripped] = o
    \/ pc = "group" /\ group[groupPos + 1][1] = o

\* The step about to be taken gives option o an occurrence by equals-sign
\* split: no alias is the stripped token, one is the text before its first "=".
OccursByEq(o) ==
    /\ OptionToken
    /\ Stripped \notin DOMAIN options_
    /\ find(Stripped, Eq) # npos
    /\ BeforeEq \in DOMAIN options_
    /\ options_[BeforeEq] = o

\* The occurrence o is about to get has no value to acquire, or acquires it:
\* the argument checks of addOccurrence pass.
ArgumentAcquired(o) ==
    IF OccursByEq(o) THEN obj[o].numArgs_ # "ArgDisallowed"
    ELSE obj[o].numArgs_ = "ArgRequired" =>
             obj[o].formatting_ # "Prefix" /\ index_ + 1 < Len(args_)

Exhausted(o) ==
    obj[o].numOccurrences_ \in {"Optional", "Required"} /\ count_[o] > 0

\* C3, as claimed: when an option whose policy is Optional or Required already
\* has count > 0, a further occurrence of it, by any alias, fails with
\* AlreadySpecified and leaves its count and stored value as they were.
C3_AsClaimed ==
    [][\A o \in NamedOptions :
         (Exhausted(o) /\ (OccursBare(o) \/ OccursByEq(o))) =>
             /\ error' = Err("AlreadySpecified", displayName(o))
             /\ count_'[o] = count_[o]
             /\ value_'[o] = value_[o]]_vars

\* C3, amended: when an option whose policy is Optional or Required already
\* has count > 0, a further occurrence of it, by any alias, fails and leaves
\* its count and stored value as they were; it fails with AlreadySpecified
\* when the argument checks that come first pass, and else with the error of
\* those checks (MissingArgument, UnexpectedArgument).
C3_FurtherOccurrenceFails ==
    [][\A o \in NamedOptions :
         (Exhausted(o) /\ (OccursBare(o) \/ OccursByEq(o))) =>
             /\ pc' = "thrown"
             /\ error'.what = displayName(o)
             /\ IF ArgumentAcquired(o)
                THEN error'.kind = "AlreadySpecified"
                ELSE error'.kind \in {"MissingArgument", "UnexpectedArgument"}
             /\ count_'[o] = count_[o]
             /\ value_'[o] = value_[o]]_vars

\* C3 witness: option a, Optional or Required, was given as -a and then as -c,
\* its other alias; the second failed with AlreadySpecified and the count is 1.
C3_Witness ==
    /\ pc = "thrown"
    /\ error = Err("AlreadySpecified", displayName("a"))
    /\ args_ = <<<<Dash, "a">>, <<Dash, "c">>>>
    /\ index_ = 1
    /\ count_["a"] = 1


\* Max of a non-empty set of numbers.
Longest(S) == CHOOSE n \in S : \A m \in S : m <= n

\* The step about to be taken matches the stripped token with option o as an
\* exact alias.
ExactMatch(o) == OptionToken /\ Stripped \in DOMAIN options_ /\ options_[Stripped] = o

PrefixFormatted(o) == obj[o].formatting_ \in {"Prefix", "MayPrefix"}

\* The lengths of the leading substrings of the stripped token that are
\* aliases of options formatted Prefix or MayPrefix.
LeadingAliases ==
    {n \in 1..Len(Stripped) :
        /\ front(Stripped, n) \in DOMAIN options_
        /\ PrefixFormatted(options_[front(Stripped, n)])}

NoExactNoEq ==
    /\ OptionToken
    /\ Stripped \notin DOMAIN options_
    /\ ~\E o \in NamedOptions : OccursByEq(o)

\* The step about to be taken matches the token with option o by prefix: no
\* exact alias, no equals-sign split, and the longest leading alias is o's.
PrefixMatch(o) ==
    /\ NoExactNoEq
    /\ LeadingAliases # {}
    /\ options_[front(Stripped, Longest(LeadingAliases))] = o

\* The token is a cluster of single-letter Grouping options and nothing before.
ClusterMatch ==
    /\ NoExactNoEq
    /\ LeadingAliases = {}
    /\ Token[2] # Dash
    /\ \A i \in 1..Len(Stripped) :
           /\ <<Stripped[i]>> \in DOMAIN options_
           /\ obj[options_[<<Stripped[i]>>]].formatting_ = "Grouping"

\* The step leaves every option but o as it was.
OnlyTouched(o) ==
    \A o2 \in DOMAIN obj \ {o} : count_'[o2] = count_[o2] /\ value_'[o2] = value_[o2]

\* The step is an occurrence of o and of no other option: o gets it, or the
\* step fails with an error that names o.
HandledAs(o) ==
    /\ OnlyTouched(o)
    /\ pc' # "group"
    /\ IF error' = NoError
       THEN pc' = "parse" /\ count_'[o] > count_[o]
       ELSE pc' = "thrown" /\ error'.what = displayName(o)
                           /\ count_'[o] = count_[o] /\ value_'[o] = value_[o]

\* C4: for a dash-prefixed token the mechanisms are tried in the order exact
\* alias, equals-sign split, prefix, cluster of grouped short options, and the
\* first that matches decides: a token whose stripped text is a registered
\* alias is handled as that option, also when a leading part of it is a prefix
\* alias or when it reads as a cluster of Grouping options; a cluster is
\* handled only when nothing before matched, and the option is unknown only
\* when nothing matched at all.
C4_FirstMatchDecides ==
    [][/\ \A o \in NamedOptions :
            (ExactMatch(o) \/ OccursByEq(o) \/ PrefixMatch(o)) => HandledAs(o)
       /\ (OptionToken /\ ClusterMatch) =>
              \/ pc' = "group" /\ count_' = count_ /\ error' = NoError
              \/ pc' = "thrown" /\ error'.kind = "MissingArgumentInGroup"
                                /\ count_' = count_
       /\ OptionToken =>
              ((error' = Err("UnknownOption", Token)) <=>
                   /\ ~ClusterMatch
                   /\ ~\E o \in NamedOptions :
                          ExactMatch(o) \/ OccursByEq(o) \/ PrefixMatch(o))]_vars

\* C4 witness: -ab was handled as option ab although a is a Prefix option, of
\* which -ab could be an occurrence with the value b.
C4_Witness ==
    /\ pc = "parse"
    /\ args_ = <<<<Dash, "a", "b">>>>
    /\ index_ = 1
    /\ "ab" \in NamedOptions
    /\ obj["a"].formatting_ = "Prefix"
    /\ count_["ab"] = 1
    /\ count_["a"] = 0

\* The step about to be taken dispatches a token that starts with a dash, is
\* not "-" nor "--", after an earlier "--" has set dashdash.
AfterDashDash ==
    /\ Dispatching
    /\ dashdash
    /\ \E i \in 1..index_ : args_[i] = <<Dash, Dash>>
    /\ Len(Token) >= 2
    /\ Token[1] = Dash
    /\ Token # <<Dash, Dash>>

\* Some positional option at or after the cursor allows an occurrence.
PositionalLeft ==
    \E i \in currentPositional_ + 1 .. Len(positionals_) :
        ~Exhausted(positionals_[i])

\* The step handles the token as a positional argument: no named option
\* changes; the token becomes the last value of the positional option the
\* cursor is at after the step, or, when no positional option is left to take
\* it, the step fails with UnhandledPositional.
HandledPositional ==
    /\ \A o \in NamedOptions : count_'[o] = count_[o] /\ value_'[o] = value_[o]
    /\ pc' # "group"
    /\ IF PositionalLeft
       THEN /\ error' = NoError
            /\ index_' = index_ + 1
            /\ currentPositional_' >= currentPositional_
            /\ LET po == positionals_[currentPositional_' + 1]
               IN  /\ count_'[po] = count_[po] + 1
                   /\ value_'[po] # <<>>
                   /\ value_'[po][Len(value_'[po])] = Token
                   /\ OnlyTouched(po)
       ELSE /\ error' = Err("UnhandledPositional", Token)
            /\ count_' = count_
            /\ value_' = value_

\* C5: once a "--" token has been seen, a following token -x is delivered to
\* positional handling: it becomes the value of the current positional option,
\* and the count of the named option x does not change.
C5_DashTokenAfterDashDashIsPositional ==
    [][AfterDashDash => HandledPositional]_vars

\* C5 witness: after "--", the token -a became the value of the positional p
\* and option a, registered, has no occurrence.
C5_Witness ==
    /\ pc = "parse"
    /\ args_ = <<<<Dash, Dash>>, <<Dash, "a">>>>
    /\ index_ = 2
    /\ dashdash
    /\ <<"a">> \in DOMAIN options_
    /\ count_["a"] = 0
    /\ count_["p"] = 1
    /\ value_["p"] = <<<<Dash, "a">>>>

\* The token about to be dispatched is the first "--" of the vector.
FirstDashDash ==
    /\ Dispatching
    /\ Token = <<Dash, Dash>>
    /\ \A i \in 1..index_ : args_[i] # <<Dash, Dash>>

\* The step consumes the token as the marker: dashdash is set and nothing else
\* changes.
ConsumedAsMarker ==
    /\ dashdash'
    /\ index_' = index_ + 1
    /\ pc' = "parse"
    /\ error' = NoError
    /\ count_' = count_
    /\ value_' = value_
    /\ currentPositional_' = currentPositional_

\* dashdash is not reset while the vector is parsed.
DashDashStays == (pc \in {"parse", "group"} /\ dashdash) => dashdash'

\* C6, as claimed: the first "--" token of a parse sets dashdash, is consumed
\* and adds no occurrence to any option; dashdash never returns to false
\* during the parse, and every later "--" token is handled as a positional
\* value.
C6_AsClaimed ==
    [][/\ FirstDashDash => ConsumedAsMarker
       /\ DashDashStays
       /\ (Dispatching /\ Token = <<Dash, Dash>> /\ ~FirstDashDash) => HandledPositional]_vars

\* C6, amended: a "--" token that is dispatched while dashdash is false sets
\* dashdash, is consumed and adds no occurrence to any option; dashdash never
\* returns to false during the parse; a "--" token that is dispatched while
\* dashdash is true, set by an earlier "--" or by a ConsumeAfter positional
\* option, is handled as a positional value; and a "--" token that an option
\* takes as its argument is not dispatched at all.
C6_DashDashOnceSpecial ==
    [][/\ (Dispatching /\ Token = <<Dash, Dash>> /\ ~dashdash) => ConsumedAsMarker
       /\ DashDashStays
       /\ (Dispatching /\ Token = <<Dash, Dash>> /\ dashdash) => HandledPositional
       /\ (pc \in {"parse", "group"} /\ index_' = index_ + 2
             /\ args_[index_ + 2] = <<Dash, Dash>>) =>
              /\ dashdash' = dashdash
              /\ \E o \in NamedOptions :
                     /\ obj[o].numArgs_ = "ArgRequired"
                     /\ OnlyTouched(o)
                     /\ value_'[o] # <<>>
                     /\ value_'[o][Len(value_'[o])] = <<Dash, Dash>>]_vars

\* C6 witness: of two "--" tokens the first set dashdash and the second became
\* the value of the positional p.
C6_Witness ==
    /\ pc = "parse"
    /\ args_ = <<<<Dash, Dash>>, <<Dash, Dash>>>>
    /\ index_ = 2
    /\ dashdash
    /\ count_["p"] = 1
    /\ value_["p"] = <<<<Dash, Dash>>>>

\* A positional option that carries ConsumeAfter has been given a token of
\* this vector.
ConsumeAfterReached ==
    /\ pc \in {"parse", "group"}
    /\ \E o \in PositionalOptions :
           "ConsumeAfter" \in obj[o].miscFlags_ /\ count_[o] > 0

\* C7: after a token has been delivered to a positional option that carries
\* ConsumeAfter, every later token of the vector, those that start with a dash
\* and "--" included, is dispatched through positional handling and never
\* changes the count of a named option.
C7_ConsumeAfterTakesTheRest ==
    [][ConsumeAfterReached =>
          /\ pc = "parse"
          /\ dashdash
          /\ Dispatching => HandledPositional]_vars

\* C7 witness: p carries ConsumeAfter and was given x; then -a was given to a
\* positional option too, and option a, registered, has no occurrence.
C7_Witness ==
    /\ pc = "parse"
    /\ args_ = <<<<"x">>, <<Dash, "a">>>>
    /\ index_ = 2
    /\ "ConsumeAfter" \in obj["p"].miscFlags_
    /\ <<"a">> \in DOMAIN options_
    /\ count_["a"] = 0
    /\ \E o \in PositionalOptions : value_[o] # <<>> /\ value_[o][Len(value_[o])] = <<Dash, "a">>


\* The step gives option o an occurrence with the value v: v, or its pieces
\* between commas when o carries CommaSeparated, are stored; a scalar keeps the
\* last of them and a container all, after those it holds.
Delivered(o, v) ==
    LET new == IF "CommaSeparated" \in obj[o].miscFlags_ THEN split(v, <<Comma>>) ELSE <<v>>
    IN  /\ error' = NoError
        /\ count_'[o] = count_[o] + Len(new)
        /\ value_'[o] = IF obj[o].IsScalar THEN <<new[Len(new)]>> ELSE value_[o] \o new

\* The occurrence of o with the inline value v passes the checks that come
\* before the value is stored.
InlineAccepted(o) == obj[o].numArgs_ # "ArgDisallowed" /\ ~Exhausted(o)

\* C8: for a token with no exact alias match and no equals-sign match, prefix
\* matching selects the longest registered alias that is a leading substring
\* of the stripped token and belongs to a Prefix or MayPrefix option, and the
\* inline value is exactly the remaining tail; whatever maxPrefixLength_ held
\* when the registry was constructed.
C8_LongestPrefixAliasWins ==
    [][\A o \in NamedOptions :
         PrefixMatch(o) =>
             LET n == Longest(LeadingAliases)
                 tail == SubSeq(Stripped, n + 1, Len(Stripped))
             IN  /\ HandledAs(o)
                 /\ \A m \in LeadingAliases : m <= n
                 /\ InlineAccepted(o) => Delivered(o, tail)
                 /\ ~InlineAccepted(o) =>
                        error'.kind \in {"UnexpectedArgument", "AlreadySpecified"}]_vars

\* C8 witness: a and ab are Prefix options, and -aba was handled as ab with
\* the value a, not as a with the value ba.
C8_Witness ==
    /\ pc = "parse"
    /\ args_ = <<<<Dash, "a", "b", "a">>>>
    /\ index_ = 1
    /\ "ab" \in NamedOptions
    /\ obj["a"].formatting_ = "Prefix"
    /\ obj["ab"].formatting_ = "Prefix"
    /\ count_["ab"] = 1
    /\ value_["ab"] = <<<<"a">>>>
    /\ count_["a"] = 0

\* The text after the first "=" of the stripped token.
AfterEq == SubSeq(Stripped, find(Stripped, Eq) + 2, Len(Stripped))

\* C9, as claimed: when a token is matched by equals-sign split, the value
\* delivered to the option is "=" and the rest only if its formatting is
\* Prefix; for Default, MayPrefix and Grouping it is the rest, without the
\* equals sign.
C9_AsClaimed ==
    [][\A o \in NamedOptions :
         (OccursByEq(o) /\ InlineAccepted(o)) =>
             Delivered(o, IF obj[o].formatting_ = "Prefix"
                          THEN <<Eq>> \o AfterEq ELSE AfterEq)]_vars

\* C10: when a named option whose argument requirement is ArgRequired is
\* matched without an inline value, the next token of the vector is taken as
\* its value; the occurrence fails with MissingArgument if there is no next
\* token or if the option's formatting is Prefix, and then the option's count
\* is unchanged (and the next token is not taken).
C10_NextTokenIsTheArgument ==
    [][\A o \in NamedOptions :
         (OccursBare(o) /\ obj[o].numArgs_ = "ArgRequired") =>
             IF obj[o].formatting_ = "Prefix" \/ index_ + 1 >= Len(args_)
             THEN /\ pc' = "thrown"
                  /\ error' = Err("MissingArgument", displayName(o))
                  /\ count_' = count_
                  /\ value_' = value_
                  /\ index_' = index_
             ELSE /\ OnlyTouched(o)
                  /\ IF Exhausted(o)
                     THEN /\ pc' = "thrown"
                          /\ error' = Err("AlreadySpecified", displayName(o))
                          /\ index_' = index_ + 1
                          /\ count_'[o] = count_[o]
                          /\ value_'[o] = value_[o]
                     ELSE /\ pc' = "parse"
                          /\ index_' = index_ + 2
                          /\ Delivered(o, args_[index_ + 2])]_vars

\* C10 witness: a is a Prefix option that requires an argument; -a followed by
\* x failed with MissingArgument, x was not taken and a has no occurrence.
C10_Witness ==
    /\ pc = "thrown"
    /\ args_ = <<<<Dash, "a">>, <<"x">>>>
    /\ index_ = 0
    /\ obj["a"].formatting_ = "Prefix"
    /\ obj["a"].numArgs_ = "ArgRequired"
    /\ error = Err("MissingArgument", displayName("a"))
    /\ count_["a"] = 0

\* The step about to be taken gives option o an occurrence with an inline
\* value, through equals-sign split or prefix match.
OccursInline(o) == OccursByEq(o) \/ PrefixMatch(o)

\* C11: when a named option whose argument requirement is ArgDisallowed is
\* matched together with an inline value, through equals-sign split or prefix
\* match, the parse fails with UnexpectedArgument naming the option, and no
\* count or value changes.
C11_InlineValueNotAllowed ==
    [][\A o \in NamedOptions :
         (OccursInline(o) /\ obj[o].numArgs_ = "ArgDisallowed") =>
             /\ pc' = "thrown"
             /\ error' = Err("UnexpectedArgument", displayName(o))
             /\ count_' = count_
             /\ value_' = value_
             /\ index_' = index_]_vars

\* C11 witness: a is a Prefix option that allows no argument; -ab, which is a
\* with the inline value b, failed with UnexpectedArgument and a has no
\* occurrence.
C11_Witness ==
    /\ pc = "thrown"
    /\ args_ = <<<<Dash, "a", "b">>>>
    /\ index_ = 0
    /\ obj["a"].formatting_ = "Prefix"
    /\ obj["a"].numArgs_ = "ArgDisallowed"
    /\ error = Err("UnexpectedArgument", displayName("a"))
    /\ count_["a"] = 0

\* The pieces of v between commas.
RECURSIVE PiecesOf(_)
PiecesOf(v) ==
    IF \A i \in 1..Len(v) : v[i] # Comma THEN <<v>>
    ELSE LET i == CHOOSE i \in 1..Len(v) :
                      v[i] = Comma /\ \A j \in 1..(i - 1) : v[j] # Comma
         IN  <<SubSeq(v, 1, i - 1)>> \o PiecesOf(SubSeq(v, i + 1, Len(v)))

\* The step about to be taken gives the named option o an occurrence with a
\* value that passes the argument checks: an inline value by equals-sign
\* split, the next token for an exact alias that requires an argument, or the
\* empty value for an exact alias that does not.
GivesValue(o) ==
    \/ OccursByEq(o) /\ obj[o].numArgs_ # "ArgDisallowed"
    \/ /\ ExactMatch(o)
       /\ obj[o].numArgs_ = "ArgRequired" =>
              obj[o].formatting_ # "Prefix" /\ index_ + 1 < Len(args_)

GivenValue(o) ==
    IF OccursByEq(o) THEN (IF PrefixFormatted(o) THEN <<Eq>> \o AfterEq ELSE AfterEq)
    ELSE IF obj[o].numArgs_ = "ArgRequired" THEN args_[index_ + 2]
    ELSE <<>>

GivenAlias(o) == IF OccursByEq(o) THEN BeforeEq ELSE Stripped

\* The pieces the value parser is given: those between commas for a
\* CommaSeparated option, else the value itself.
GivenPieces(o) ==
    IF "CommaSeparated" \in obj[o].miscFlags_ THEN PiecesOf(GivenValue(o))
    ELSE <<GivenValue(o)>>

\* The parsed values of the first n pieces.
Parsed(o, n) == [i \in 1..n |-> Parser(o, GivenAlias(o), GivenPieces(o)[i]).value]

Rejected(o) ==
    {i \in 1..Len(GivenPieces(o)) : ~Parser(o, GivenAlias(o), GivenPieces(o)[i]).ok}

Elements(q) == {q[i] : i \in 1..Len(q)}

\* After the step the storage of o holds what it held and the values vals,
\* stored one after the other: a scalar the last of them, a vector all of them
\* in their order at its end, a set their union with what it held, in order.
StoredInOrder(o, vals) ==
    IF vals = <<>> THEN value_'[o] = value_[o]
    ELSE IF obj[o].IsScalar THEN value_'[o] = <<vals[Len(vals)]>>
    ELSE IF obj[o].container = "set"
    THEN /\ Elements(value_'[o]) = Elements(value_[o]) \cup Elements(vals)
         /\ \A i \in 1..(Len(value_'[o]) - 1) : value_'[o][i] < value_'[o][i + 1]
    ELSE value_'[o] = value_[o] \o vals

\* C12: for a CommaSeparated option a value a,b,c is split on "," into the
\* pieces a, b, c, each piece is passed to the value parser and stored
\* separately, from left to right, and the count grows by one per piece.
C12_EveryPieceStoredInOrder ==
    [][\A o \in NamedOptions :
         (/\ "CommaSeparated" \in obj[o].miscFlags_
          /\ GivesValue(o)
          /\ ~Exhausted(o)
          /\ Rejected(o) = {}) =>
             /\ error' = NoError
             /\ count_'[o] = count_[o] + Len(GivenPieces(o))
             /\ StoredInOrder(o, Parsed(o, Len(GivenPieces(o))))]_vars

\* C12 witness: z is CommaSeparated, requires an argument and holds a set of
\* ints; after --z=1,2,3 the set is {1, 2, 3} and the count 3.
C12_Witness ==
    /\ pc = "parse"
    /\ args_ = <<<<Dash, Dash, "z", Eq, "1", Comma, "2", Comma, "3">>>>
    /\ index_ = 1
    /\ "CommaSeparated" \in obj["z"].miscFlags_
    /\ obj["z"].numArgs_ = "ArgRequired"
    /\ obj["z"].container = "set" /\ ~obj["z"].IsScalar
    /\ value_["z"] = <<1, 2, 3>>
    /\ count_["z"] = 3

ClusterMembers == [n \in 1..Len(Stripped) |-> options_[<<Stripped[n]>>]]

\* The members of the cluster, but the last, that require an argument.
MisplacedMembers ==
    {n \in 1..(Len(Stripped) - 1) : obj[ClusterMembers[n]].numArgs_ = "ArgRequired"}

\* C14: for Grouping options with single-letter aliases, none of which
\* requires an argument, a short-form token such as -ab is handled letter by
\* letter, in the token's order: the option of each letter gets one occurrence
\* with the empty value, no other option changes, and no other token is
\* consumed (the index moves by one when the last letter is done).
C14_ClusterGivesEachMemberOneOccurrence ==
    [][/\ (OptionToken /\ ClusterMatch /\ MisplacedMembers = {}) =>
              /\ pc' = "group"
              /\ groupPos' = 0
              /\ Len(group') = Len(Stripped)
              /\ \A n \in 1..Len(Stripped) : group'[n] = <<ClusterMembers[n], <<Stripped[n]>>>>
              /\ count_' = count_ /\ value_' = value_ /\ index_' = index_
       /\ \A o \in NamedOptions :
              (/\ pc = "group"
               /\ group[groupPos + 1][1] = o
               /\ obj[o].numArgs_ # "ArgRequired"
               /\ ~Exhausted(o)) =>
                  /\ Delivered(o, <<>>)
                  /\ count_'[o] = count_[o] + 1
                  /\ OnlyTouched(o)
                  /\ IF groupPos + 1 = Len(group)
                     THEN pc' = "parse" /\ index_' = index_ + 1
                     ELSE pc' = "group" /\ index_' = index_ /\ groupPos' = groupPos + 1
                                        /\ group' = group]_vars

\* C14 witness: a and b are Grouping options that require no argument; after
\* the one token -ab each has one occurrence, with the empty value.
C14_Witness ==
    /\ pc = "parse"
    /\ args_ = <<<<Dash, "a", "b">>>>
    /\ index_ = 1
    /\ obj["a"].formatting_ = "Grouping" /\ obj["b"].formatting_ = "Grouping"
    /\ obj["a"].numArgs_ # "ArgRequired" /\ obj["b"].numArgs_ # "ArgRequired"
    /\ count_["a"] = 1 /\ count_["b"] = 1
    /\ value_["a"] = <<<<>>>> /\ value_["b"] = <<<<>>>>

\* C15: in a cluster of Grouping options, if a member other than the last
\* requires an argument, the parse fails with MissingArgumentInGroup naming
\* that option (the first such member) and the cluster, and no member of the
\* cluster has its count or value changed.
C15_ArgumentOnlyForTheLastOfACluster ==
    [][(OptionToken /\ ClusterMatch /\ MisplacedMembers # {}) =>
           LET n == CHOOSE n \in MisplacedMembers : \A m \in MisplacedMembers : n <= m
           IN  /\ pc' = "thrown"
               /\ error' = Err("MissingArgumentInGroup",
                               <<displayName(ClusterMembers[n]), Stripped>>)
               /\ count_' = count_
               /\ value_' = value_
               /\ index_' = index_]_vars

\* C15 witness: a requires an argument and is the first of the cluster -ab,
\* before a token it could have taken; the parse failed with
\* MissingArgumentInGroup and neither a nor b has an occurrence.
C15_Witness ==
    /\ pc = "thrown"
    /\ args_ = <<<<Dash, "a", "b">>, <<"x">>>>
    /\ index_ = 0
    /\ obj["a"].formatting_ = "Grouping" /\ obj["a"].numArgs_ = "ArgRequired"
    /\ error = Err("MissingArgumentInGroup", <<displayName("a"), <<"a", "b">>>>)
    /\ count_["a"] = 0 /\ count_["b"] = 0

\* The registered groups.
RegisteredGroups == {groups_[k] : k \in DOMAIN groups_}

\* The members of group g that have occurred, and all its members.
Specified(g) == {o \in Elements(groupObj[g].options_) : count_[o] > 0}
Members(g) == Elements(groupObj[g].options_)

\* Every token of the vector was dispatched and check() has run.
Checked == ParseEnded /\ index_ = Len(args_)

\* No registered option that has to occur is missing.
NothingMissing ==
    \A o \in Registered :
        obj[o].numOccurrences_ \in {"Required", "OneOrMore"} => count_[o] > 0

\* The parse has failed with GroupConstraintViolated for group g.
Violated(g) == pc = "thrown" /\ error = Err("GroupConstraintViolated", groupObj[g].name_)

\* C16, as claimed: for a registered group with constraint One over the
\* options a and b, a parse in which neither occurs fails with
\* GroupConstraintViolated, so does a parse in which both occur, and a parse in
\* which exactly one of them occurs passes group validation (the parse is one
\* whose tokens were all dispatched).
C16_AsClaimed ==
    \A g \in RegisteredGroups :
        (/\ Checked
         /\ groupObj[g].type_ = "One"
         /\ Members(g) = {"a", "b"}) =>
            /\ (count_["a"] = 0 /\ count_["b"] = 0) => Violated(g)
            /\ (count_["a"] > 0 /\ count_["b"] > 0) => Violated(g)
            /\ ((count_["a"] > 0) # (count_["b"] > 0)) =>
                   error.kind # "GroupConstraintViolated"

\* C16, where check() gets as far as the groups: the same, for a parse that
\* misses no required option.
C16_GroupOne ==
    \A g \in RegisteredGroups :
        (/\ Checked
         /\ NothingMissing
         /\ groupObj[g].type_ = "One"
         /\ Members(g) = {"a", "b"}) =>
            /\ (count_["a"] = 0 /\ count_["b"] = 0) => Violated(g)
            /\ (count_["a"] > 0 /\ count_["b"] > 0) => Violated(g)
            /\ ((count_["a"] > 0) # (count_["b"] > 0)) => pc = "done" /\ error = NoError

\* C16 witness: the group is One over a and b, both occurred, and the parse
\* failed with GroupConstraintViolated.
C16_Witness ==
    /\ "G" \in RegisteredGroups
    /\ groupObj["G"].type_ = "One"
    /\ Checked
    /\ count_["a"] = 1 /\ count_["b"] = 1
    /\ Violated("G")

\* What a constraint asks of N members specified out of M.
Satisfies(type, N, M) ==
    CASE type = "Default" -> TRUE
      [] type = "Zero" -> N = 0
      [] type = "ZeroOrOne" -> N <= 1
      [] type = "One" -> N = 1
      [] type = "OneOrMore" -> N >= 1
      [] type = "All" -> N = M
      [] type = "ZeroOrAll" -> N = 0 \/ N = M

\* C17: group validation depends only on N, the number of member options
\* with count > 0, however often a member occurred, and on the membership M:
\* Default never fails, Zero passes iff N = 0, ZeroOrOne iff N <= 1, One iff
\* N = 1, OneOrMore iff N >= 1, All iff N = M, ZeroOrAll iff N = 0 or N = M.
C17_GroupValidationByNumberSpecified ==
    \A g \in RegisteredGroups :
        (Checked /\ NothingMissing) =>
            IF Satisfies(groupObj[g].type_, Cardinality(Specified(g)), Cardinality(Members(g)))
            THEN pc = "done" /\ error = NoError
            ELSE Violated(g)

\* C17 witness: the group is ZeroOrOne, its member a occurred twice and b did
\* not, and the parse passed.
C17_Witness ==
    /\ "G" \in RegisteredGroups
    /\ groupObj["G"].type_ = "ZeroOrOne"
    /\ Checked
    /\ count_["a"] = 2 /\ count_["b"] = 0
    /\ pc = "done"

\* A group's constraint is violated and a required option is missing.
BothViolated ==
    /\ Checked
    /\ ~NothingMissing
    /\ \E g \in RegisteredGroups :
           ~Satisfies(groupObj[g].type_, Cardinality(Specified(g)), Cardinality(Members(g)))

\* C18, as claimed: the group validation runs before the final check: when a
\* parse leaves both a group constraint violated and a required option
\* missing, the error reported, at which the parse stops, is
\* GroupConstraintViolated.
C18_AsClaimed == BothViolated => error.kind = "GroupConstraintViolated"

(***************************************************************************)
(* Response-file expansion                                                 *)
(***************************************************************************)

\* The loop of expandResponseFiles looks at a token.
Expanding == pc = "expand" /\ expandI < Len(args_)

\* The token the loop looks at, and whether a token refers to a file.
Scanned == args_[expandI + 1]
IsReference(t) == t # <<>> /\ t[1] = At
Referenced == Tail(Scanned)

\* Dispatch has begun, or has ended without an error of the expansion.
Dispatched == pc \in {"parse", "group", "done"}

\* C19: expansion replaces a token that begins with '@' in place by the
\* tokens of the file it names, in file order; the tokens before and after
\* it stay as they are, in their order; the scan goes on at the first
\* token put in, and a token that does not begin with '@' is passed over
\* unchanged.  No token that begins with '@' is left when dispatch begins,
\* whether it came from the argument vector or out of a file.
C19_ReferenceReplacedInPlace ==
    /\ [][Expanding =>
            IF ~IsReference(Scanned)
            THEN args_' = args_ /\ expandI' = expandI + 1
            ELSE Referenced \in DOMAIN files =>
                 LET toks == tokenizeCommandLineUnix(files[Referenced])
                 IN  /\ Len(args_') = Len(args_) - 1 + Len(toks)
                     /\ \A k \in 1..expandI : args_'[k] = args_[k]
                     /\ \A k \in 1..Len(toks) : args_'[expandI + k] = toks[k]
                     /\ \A k \in (expandI + 2)..Len(args_) :
                            args_'[k - 1 + Len(toks)] = args_[k]
                     /\ expandI' = expandI]_vars
    /\ [](Dispatched => \A k \in 1..Len(args_) : ~IsReference(args_[k]))

\* "@file", where file holds "--x 1 --y 2", has become --x 1 --y 2 after one
\* expansion, and no token has been dispatched yet.
C19_Witness ==
    /\ pc = "parse"
    /\ index_ = 0
    /\ responseFilesLeft = MaxResponseFiles - 1
    /\ files[File] = <<Dash, Dash, "x", Space, "1", Space, Dash, Dash, "y", Space, "2">>
    /\ args_ = << <<Dash, Dash, "x">>, <<"1">>, <<Dash, Dash, "y">>, <<"2">> >>

\* The files a file refers to, and the files reached from a set of files by
\* n references at most.
References(name) ==
    IF name \in DOMAIN files
    THEN {Tail(t) : t \in {u \in Elements(tokenizeCommandLineUnix(files[name])) : IsReference(u)}}
    ELSE {}

RECURSIVE Reached(_, _)
Reached(names, n) ==
    IF n = 0 THEN names
    ELSE Reached(names \cup UNION {References(m) : m \in names}, n - 1)

\* A file that refers to itself, directly or through a chain of files, all
\* the files it leads to being there.
SelfReferencing(name) ==
    LET n == Cardinality(DOMAIN files)
    IN  /\ name \in Reached(References(name), n)
        /\ Reached({name}, n) \subseteq DOMAIN files

TooManyThrown == pc = "thrown" /\ error.kind = "TooManyResponseFiles"

\* C20: the loop of expandResponseFiles ends; once it looks at a reference
\* to a file that refers to itself, directly or through a chain, it ends
\* with TooManyResponseFiles, after MaxResponseFiles expansions; and the
\* expansion dispatches no token: index_, the counts, the values and the
\* positional cursor are as they were.
C20_ExpansionTerminates ==
    /\ (pc = "expand") ~> (pc # "expand")
    /\ (Expanding /\ IsReference(Scanned) /\ SelfReferencing(Referenced)) ~> TooManyThrown
    /\ [](responseFilesLeft \in 0..MaxResponseFiles)
    /\ [](TooManyThrown =>
            /\ responseFilesLeft = 0
            /\ index_ = 0
            /\ \A o \in DOMAIN obj : count_[o] = 0 /\ value_[o] = <<>>)
    /\ [][pc = "expand" => UNCHANGED <<index_, count_, value_, currentPositional_>>]_vars

\* The expansion of "@file", where file holds "@file", has been given up.
C20_Witness ==
    /\ TooManyThrown
    /\ files[File] = <<At>> \o File
    /\ args_ = << <<At>> \o File >>

\* The number of expansions that the tokens of q still take, in a file
\* system whose references lead to no cycle and to no missing file; depth
\* bounds the nesting of the references.
RECURSIVE Needed(_, _)
Needed(q, depth) ==
    IF q = <<>> \/ depth = 0 THEN 0
    ELSE (IF IsReference(Head(q)) /\ Tail(Head(q)) \in DOMAIN files
          THEN 1 + Needed(tokenizeCommandLineUnix(files[Tail(Head(q))]), depth - 1)
          ELSE 0)
         + Needed(Tail(q), depth)

\* The expansions done since expandAndParse began, and those still to do.
ExpansionsDone == MaxResponseFiles - responseFilesLeft
ExpansionsLeft == Needed(SubSeq(args_, expandI + 1, Len(args_)), Cardinality(DOMAIN files))

\* C21, as claimed: TooManyResponseFiles is raised only when the full
\* expansion of the token vector needs more than MaxResponseFiles
\* expansions; one that needs MaxResponseFiles or fewer ends without error.
C21_AsClaimed == TooManyThrown => ExpansionsDone + ExpansionsLeft > MaxResponseFiles

(***************************************************************************)
(* The registry                                                            *)
(***************************************************************************)

\* The aliases an option declares: the pieces of its name between the '|',
\* or its allowed values when it has no name.
DeclaredAliases(o) ==
    LET n == obj[o].name_
        starts == {i \in 1..(Len(n) + 1) : i = 1 \/ n[i - 1] = Pipe}
        ends == {j \in 0..Len(n) : j = Len(n) \/ n[j + 1] = Pipe}
    IN  IF n = <<>> THEN Elements(obj[o].allowedValues)
        ELSE {SubSeq(n, r[1], r[2]) :
                r \in {t \in starts \X ends :
                         t[2] >= t[1] - 1 /\ \A k \in t[1]..t[2] : n[k] # Pipe}}

\* The program calls add() for the option object o in this step.
Registering(o) == pc = "config" /\ toAdd # <<>> /\ Head(toAdd) = o /\ toAdd' = Tail(toAdd)

\* C22: the alias map gives each alias one option.  The registration of an
\* option that is not positional, one of whose aliases the map already
\* holds, fails with DuplicateAlias naming such an alias, and every alias of
\* the map keeps the option it had.
C22_DuplicateAliasKeepsFirst ==
    [][\A o \in DOMAIN obj :
         Registering(o) /\ obj[o].formatting_ # "Positional" =>
            /\ \A k \in DOMAIN options_ : k \in DOMAIN options_' /\ options_'[k] = options_[k]
            /\ DeclaredAliases(o) \cap DOMAIN options_ # {} =>
                   /\ error'.kind = "DuplicateAlias"
                   /\ error'.what \in DeclaredAliases(o) \cap DOMAIN options_]_vars

\* The registration of b|a after a has failed for a; a is still the option a.
C22_Witness ==
    /\ pc = "config"
    /\ error = Err("DuplicateAlias", <<"a">>)
    /\ <<"b">> \in DOMAIN options_
    /\ options_[<<"a">>] = "a"

\* The sequence v holds no element twice.
NoRepetition(v) == \A i, j \in 1..Len(v) : i # j => v[i] # v[j]

\* The options of v are in the order of their names.
SortedByName(v) == \A i, j \in 1..Len(v) : i < j => ~less(obj[v[j]].name_, obj[v[i]].name_)

\* C23, as claimed: getUniqueOptions() returns every registered option that
\* is not positional exactly once, sorted by name, in every registry.
C23_AsClaimed ==
    /\ Elements(getUniqueOptions) = NamedOptions
    /\ NoRepetition(getUniqueOptions)
    /\ SortedByName(getUniqueOptions)

(***************************************************************************)
(* Unknown options                                                         *)
(***************************************************************************)

\* Some character of the stripped token is not the alias of a Grouping option.
IncompleteCluster ==
    \E i \in 1..Len(Stripped) :
        \/ <<Stripped[i]>> \notin DOMAIN options_
        \/ obj[options_[<<Stripped[i]>>]].formatting_ # "Grouping"

\* The token about to be dispatched goes to the named-option handlers and
\* none of them matches it: no alias is the stripped token or what stands
\* before its first "=", no alias of a Prefix option begins it and, when it
\* has one dash, its characters are not all Grouping options.
MatchesNothing ==
    /\ OptionToken
    /\ NoExactNoEq
    /\ LeadingAliases = {}
    /\ Token[2] # Dash => IncompleteCluster

\* C24: a token that starts with a dash, is not "-" nor the "--" that sets
\* dashdash, is dispatched before dashdash is set and matches nothing, fails
\* with UnknownOption naming the token, and its dispatch changes no option's
\* count or value, nor the positional cursor.
C24_UnmatchedTokenIsUnknown ==
    [][MatchesNothing =>
          /\ pc' = "thrown"
          /\ error' = Err("UnknownOption", Token)
          /\ count_' = count_
          /\ value_' = value_
          /\ currentPositional_' = currentPositional_]_vars

\* -ab has failed as unknown after an occurrence of b: b is a Grouping option
\* and a is not, nor a Prefix option, and only b has occurred.
C24_Witness ==
    /\ pc = "thrown"
    /\ args_ = <<<<Dash, "b">>, <<Dash, "a", "b">>>>
    /\ error = Err("UnknownOption", <<Dash, "a", "b">>)
    /\ "a" \in NamedOptions
    /\ count_["a"] = 0
    /\ count_["b"] = 1

(***************************************************************************)
(* The engine with flags                                                   *)
(***************************************************************************)

AllowsUnknown == "AllowUnknownOptions" \in flags_
StopsOnFirst == "StopOnFirstError" \in flags_

C26_FirstErrorEndsTheParse ==
    /\ [][(StopsOnFirst /\ Dispatching /\ errors_' # errors_) =>
             pc' = "failed" /\ index_' = index_]_vars
    /\ [][(StopsOnFirst /\ errors_ # <<>>) =>
             UNCHANGED <<count_, value_, index_, currentPositional_, errors_, unknowns_, pc>>]_vars
    /\ [](StopsOnFirst /\ errors_ # <<>> => pc = "failed" /\ Len(errors_) = 1)

\* -q -a has failed at -q: the required option a, which the second token
\* names, has not occurred and is not reported as missing.
C26_Witness ==
    /\ pc = "failed"
    /\ StopsOnFirst
    /\ args_ = <<<<Dash, "q">>, <<Dash, "a">>>>
    /\ index_ = 0
    /\ errors_ = <<Err("UnknownOption", <<Dash, "q">>)>>
    /\ obj["a"].numOccurrences_ = "Required"
    /\ count_["a"] = 0

PositionalToken ==
    /\ Dispatching
    /\ \/ dashdash
       \/ Token = <<Dash>>
       \/ Token # <<>> /\ Token[1] # Dash

\* C28: a positional token goes to the first positional option, in
\* declaration order from the cursor on, that allows an occurrence: the
\* cursor does not move back and the options it passes are exhausted
\* (Optional or Required with count > 0); the option gets one occurrence
\* with the token as its value, and the token after it is the next to be
\* dispatched.  When no option from the cursor on allows an occurrence the
\* token fails with UnhandledPositional and nothing changes.  The cursor
\* never passes the end of the list.
C28_PositionalsInDeclarationOrder ==
    /\ [][PositionalToken =>
             /\ HandledPositional
             /\ currentPositional_' >= currentPositional_
             /\ PositionalLeft =>
                    /\ \A i \in (currentPositional_ + 1)..currentPositional_' :
                           Exhausted(positionals_[i])
                    /\ ~Exhausted(positionals_[currentPositional_' + 1])]_vars
    /\ [](currentPositional_ <= Len(positionals_))

\* x x has been dispatched to p, which may occur once, and then to q.
C28_Witness ==
    /\ pc = "parse"
    /\ args_ = <<<<"x">>, <<"x">>>>
    /\ index_ = 2
    /\ positionals_ = <<"p", "q">>
    /\ currentPositional_ = 1
    /\ count_["p"] = 1
    /\ count_["q"] = 1

(***************************************************************************)
(* Termination of the dispatch loop                                        *)
(***************************************************************************)

InLoop == pc \in {"parse", "group"}

\* C29: the loop of parse() terminates.  index_ never exceeds the length of
\* args_; no step of the loop decreases it, and a turn that ends without an
\* error leaves it strictly greater than it was; check() runs only when
\* index_ has reached the length of args_; and every parse that has started
\* returns or throws.
C29_DispatchTerminates ==
    /\ [](index_ <= Len(args_))
    /\ [][InLoop => /\ index_' >= index_
                    /\ (pc' = "parse" => index_' > index_)
                    /\ (pc' = "done" => index_ = Len(args_))]_vars
    /\ InLoop ~> (pc \in {"done", "thrown"})

\* -a x with a taking the next token as its argument: the turn has taken
\* both tokens and the parse has returned.
C29_Witness ==
    /\ pc = "done"
    /\ args_ = <<<<Dash, "a">>, <<"x">>>>
    /\ index_ = 2
    /\ obj["a"].numArgs_ = "ArgRequired"
    /\ count_["a"] = 1
    /\ count_["p"] = 0

(***************************************************************************)
(* Counts over several calls of parse                                      *)
(***************************************************************************)

\* A call of parse(argv) starts.
ParseStarts == pc \in {"config", "done", "thrown"} /\ pc' = "parse"

\* C30: no step decreases the count of an option; the step that starts a
\* parse leaves every count and every value as the parse before left them;
\* and an option that may occur once and has its occurrence from an earlier
\* parse fails with AlreadySpecified when it is given again.
C30_CountsNeverDecrease ==
    /\ [][\A o \in DOMAIN count_ : count_'[o] >= count_[o]]_vars
    /\ [][ParseStarts => count_' = count_ /\ value_' = value_]_vars
    /\ [][/\ Dispatching
          /\ Token = <<Dash, "a">>
          /\ index_ = 0
          /\ count_["a"] > 0
          /\ obj["a"].numOccurrences_ \in {"Optional", "Required"}
          => /\ error' = Err("AlreadySpecified", displayName("a"))
             /\ count_' = count_]_vars

\* -a was given in the first parse and is the first token of the second:
\* the second parse has thrown AlreadySpecified with the count still 1.
C30_Witness ==
    /\ parsesLeft = 0
    /\ pc = "thrown"
    /\ error.kind = "AlreadySpecified"
    /\ obj["a"].numOccurrences_ = "Optional"
    /\ args_ = <<<<Dash, "a">>>>
    /\ index_ = 0
    /\ count_["a"] = 1

(***************************************************************************)
(* Tokens with two dashes                                                  *)
(***************************************************************************)

\* The token about to be dispatched has two dashes before a name of two or
\* more letters that are all aliases of Grouping options, and the name is no
\* alias, has no "=" after an alias, and begins with no alias of a Prefix
\* option.
LongFormCluster ==
    /\ NoExactNoEq
    /\ LeadingAliases = {}
    /\ Token[2] = Dash
    /\ Len(Stripped) >= 2
    /\ ~IncompleteCluster

\* C31: a token with two dashes whose name is a row of Grouping options, as
\* --ab with a and b Grouping, is not handled as the cluster: it fails with
\* UnknownOption naming the token and no count or value changes.
C31_LongFormIsNoCluster ==
    [][LongFormCluster =>
          /\ pc' = "thrown"
          /\ error' = Err("UnknownOption", Token)
          /\ count_' = count_
          /\ value_' = value_]_vars

\* --ab has failed as unknown where a and b are Grouping options.
C31_Witness ==
    /\ pc = "thrown"
    /\ args_ = <<<<Dash, Dash, "a", "b">>>>
    /\ error = Err("UnknownOption", <<Dash, Dash, "a", "b">>)
    /\ obj["a"].formatting_ = "Grouping"
    /\ obj["b"].formatting_ = "Grouping"
    /\ count_["a"] = 0
    /\ count_["b"] = 0

(***************************************************************************)
(* Splitting                                                               *)
(***************************************************************************)

\* The number of occurrences of the delimiter d in w, counted from the left
\* without overlap.
RECURSIVE Occurrences(_, _)
Occurrences(w, d) ==
    IF Len(w) < Len(d) THEN 0
    ELSE IF SubSeq(w, 1, Len(d)) = d
    THEN 1 + Occurrences(SubSeq(w, Len(d) + 1, Len(w)), d)
    ELSE Occurrences(Tail(w), d)

\* The pieces with the delimiter d between them.
RECURSIVE Join(_, _)
Join(pieces, d) ==
    IF Len(pieces) = 1 THEN pieces[1]
    ELSE pieces[1] \o d \o Join(Tail(pieces), d)

\* d occurs in w at position i (from 1).
OccursAt(w, d, i) == i + Len(d) - 1 <= Len(w) /\ SubSeq(w, i, i + Len(d) - 1) = d

SplitEnded == splitRange.it = "end"

\* C32: when the iteration over split(Str, Delim) with a non-empty literal
\* delimiter has ended, it has yielded one piece more than the delimiter
\* occurs in Str, counted from the left without overlap; the pieces joined
\* with the delimiter are Str; and each piece but the last ends where the
\* delimiter first occurs in what was left of Str.  "" gives one empty piece,
\* "," two, "a," gives "a" and "", and "-a-b-c----d" on "--" gives "-a-b-c",
\* "" and "d".
C32_SplitKeepsEveryPiece ==
    SplitEnded =>
        LET Str == splitRange.Str
            Delim == splitRange.Delim
        IN  /\ Len(splitOut) = Occurrences(Str, Delim) + 1
            /\ Join(splitOut, Delim) = Str
            /\ \A k \in 1..(Len(splitOut) - 1) :
                   \A i \in 1..Len(splitOut[k]) : ~OccursAt(splitOut[k] \o Delim, Delim, i)
            /\ Str = <<>> => splitOut = << <<>> >>
            /\ Str = <<Comma>> /\ Delim = <<Comma>> => splitOut = << <<>>, <<>> >>
            /\ Str = <<"a", Comma>> /\ Delim = <<Comma>> => splitOut = << <<"a">>, <<>> >>
            /\ Str = Test7 /\ Delim = <<Dash, Dash>> =>
                   splitOut = << <<Dash, "a", Dash, "b", Dash, "c">>, <<>>, <<"d">> >>

\* "-a-b-c----d" has been split on "--" into three pieces.
C32_Witness ==
    /\ SplitEnded
    /\ splitRange.Str = Test7
    /\ splitRange.Delim = <<Dash, Dash>>
    /\ Len(splitOut) = 3

(***************************************************************************)
(* Trimming                                                                *)
(***************************************************************************)

Trimmed == trimRef.calls >= 1

\* C33, as claimed: the result of trim_right(Chars) has no trailing character
\* that belongs to Chars, whatever the string was, and a second call gives
\* the result of the first.
C33_AsClaimed ==
    /\ [](Trimmed =>
             \/ trimRef.str = <<>>
             \/ ~inChars(trimRef.Chars, trimRef.str[Len(trimRef.str)]))
    /\ [][Trimmed => trimRef'.str = trimRef.str]_vars

(***************************************************************************)
(* maxPrefixLength_ and failed registrations                               *)
(***************************************************************************)

\* The lengths of the aliases, in the alias map, of options formatted Prefix
\* or MayPrefix.
PrefixAliasLengths == {Len(k) : k \in {j \in DOMAIN options_ : PrefixFormatted(options_[j])}}

\* C34, as claimed: when the program has registered one option or more and
\* every call of add has returned, maxPrefixLength_ is the length of the
\* longest alias of an option formatted Prefix or MayPrefix, and 0 when the
\* alias map holds no such alias.
C34_AsClaimed ==
    (pc # "aborted" /\ (DOMAIN options_ # {} \/ positionals_ # <<>>)) =>
        maxPrefixLength_ = IF PrefixAliasLengths = {} THEN 0 ELSE Longest(PrefixAliasLengths)

\* C35, as claimed: a call of add that fails with DuplicateAlias leaves the
\* alias map and maxPrefixLength_ as they were before the call.
C35_AsClaimed ==
    [][\A o \in DOMAIN obj :
         Registering(o) /\ error'.kind = "DuplicateAlias" =>
            /\ options_' = options_
            /\ maxPrefixLength_' = maxPrefixLength_]_vars

(***************************************************************************)
(* What a turn of the loop consumes                                        *)
(***************************************************************************)

\* The step about to be taken gives o, which requires an argument, an
\* occurrence without an inline value.
TakesNext(o) == OccursBare(o) /\ obj[o].numArgs_ = "ArgRequired"

\* C36: a turn of the loop that ends without an error consumes the token it
\* dispatches and nothing else, but for an option that requires an argument
\* and is matched without an inline value (alone or as the last of a
\* cluster): then it consumes the token after it too, as that option's
\* value.  index_ advances by two in that case and by one in every other,
\* and stays where it is while a cluster goes on.  The token taken as a value
\* is given to that option only: it touches no other option, dashdash or the
\* positional cursor, whatever it looks like.  A parse that returns has
\* consumed the whole vector.
C36_EveryTokenConsumedOnce ==
    /\ [][InLoop =>
             /\ pc' = "group" => index_' = index_
             /\ pc' = "parse" =>
                    IF \E o \in NamedOptions : TakesNext(o)
                    THEN \A o \in NamedOptions :
                             TakesNext(o) =>
                                 /\ index_' = index_ + 2
                                 /\ Delivered(o, args_[index_ + 2])
                                 /\ OnlyTouched(o)
                                 /\ dashdash' = dashdash
                                 /\ currentPositional_' = currentPositional_
                    ELSE index_' = index_ + 1]_vars
    /\ [](pc = "done" => index_ = Len(args_))

\* -a -- with a requiring an argument: "--" is the value of a, dashdash is
\* not set and the turn has consumed both tokens.
C36_Witness ==
    /\ pc = "parse"
    /\ args_ = <<<<Dash, "a">>, <<Dash, Dash>>>>
    /\ index_ = 2
    /\ ~dashdash
    /\ obj["a"].numArgs_ = "ArgRequired"
    /\ count_["a"] = 1
    /\ value_["a"] = <<<<Dash, Dash>>>>

(***************************************************************************)
(* The empty token and the tokens of dashes                                *)
(***************************************************************************)

\* C37 as claimed: the dispatch of an empty token reads no character out of
\* range, so the assert of StringRef::operator[] holds and the turn goes on
\* to the positional handling.
C37_AsClaimed ==
    [][(Dispatching /\ Token = <<>>) => pc' # "crashed"]_vars

\* Token goes to handleOption, handlePrefix and handleGroup.
ReachesHandlers ==
    Dispatching /\ ~isDashDash(Token, dashdash) /\ ~isPositionalArg(Token, dashdash)

\* The name handleArg gives to the handlers (lines 229-236).
StrippedName ==
    LET name1 == substr(Token, 1, npos)
    IN  IF charAt(name1, 0) # Dash THEN name1 ELSE substr(name1, 1, npos)

\* C38: whenever a token goes to handleOption, handlePrefix and handleGroup
\* the name left after the dashes are dropped is not empty, so the asserts
\* on that name in handlePrefix and handleGroup never fail; "-" and "--",
\* the tokens that would leave an empty name, never go to the handlers.
C38_StrippedNameNotEmpty ==
    /\ ReachesHandlers => StrippedName # <<>>
    /\ (Dispatching /\ Token \in {<<Dash>>, <<Dash, Dash>>}) => ~ReachesHandlers
    /\ error # Err("AssertionFailed", CurrAssert)

\* "---" has gone to the handlers with the name "-", which no option has, and
\* "-" before it to the positional.
C38_Witness ==
    /\ args_ = <<<<Dash>>, <<Dash, Dash, Dash>>>>
    /\ pc = "thrown"
    /\ error = Err("UnknownOption", <<Dash, Dash, Dash>>)
    /\ index_ = 1
    /\ count_["p"] = 1

(***************************************************************************)
(* A group that holds an option twice                                      *)
(***************************************************************************)

\* C39 as claimed: the result of a group's validation depends on the set of
\* its member options only.  However often an option was put into the group,
\* the parse fails for the group exactly when its constraint is not met by
\* the number of distinct members that have occurred and the number of
\* distinct members.
C39_AsClaimed ==
    \A g \in RegisteredGroups :
        (Checked /\ NothingMissing) =>
            (Violated(g) <=>
                 ~Satisfies(groupObj[g].type_, Cardinality(Specified(g)),
                            Cardinality(Members(g))))

====
